---- MODULE Spec2Model ----
(***************************************************************************)
(* Freq-Peak: spectrum analyser.  Model of the peak detector, the          *)
(* peak-hold update of the render tick, the mode derivation and the        *)
(* live / record / playback handlers with the self-rescheduling render     *)
(* loop.                                                                   *)
(*                                                                         *)
(* Arrays (Float32Array, plain arrays) are functions over 0..n-1 so that   *)
(* bin indices are the source's indices.  Numbers are integers; the        *)
(* frequency of bin i, i / arr.length * nyquist, is kept exactly as the    *)
(* numerator i * nyquist over the denominator arr.length, and every        *)
(* comparison with it is cross-multiplied by arr.length.                   *)
(***************************************************************************)
EXTENDS Integers, Sequences, FiniteSets, TLC

\* ------------------------------------------------------------------ bounds
MaxBins == 6          \* longest magnitude array given to the peak detector
MaxLoops == 2         \* pending render callbacks of one kind
MaxPending == 2       \* 'ended' events in flight, unreferenced playing sources
MaxTime == 2          \* clock ticks of 25 ms

\* const SCRUB_THROTTLE_MS = 50, in ticks
ScrubThrottle == 2
\* offsets the pointer can be put at
ScrubPositions == {1, 2}

\* -Infinity, the fill value of the peak-hold array: below every level
NegInf == -1000

\* magnitude levels (dB) of the detector's input arrays
Levels == {-100, -90, -40, -35}
NyquistVals == {1000}
FreqMinVals == {0, 200, 600}
FreqMaxVals == {200, 1000}
PeakCountVals == {-1, 0, 1, 5}
PeakDeltaVals == {1, 400}

\* render tick: bin counts (fftSize / 2), frame levels, values of the
\* settings inputs (freqMin, freqMax, dbMin, peakCount, peakDelta)
BinCounts == {2, 4}
FrameLevels == {-60, -50}
HoldNyquist == 1000
SettingsVals == {<<0, 1000, -100, 5, 1>>, <<300, 600, -55, 5, 1>>, <<0, 1000, -100, 0, 1>>}

\* statement-level tick: display ranges (freqMin, freqMax, dbMin, dbMax), two
\* valid and four invalid, and the frames the analyser delivers
DisplayRanges == {<<0, 1000, -100, 0>>, <<250, 750, -55, 0>>, <<500, 500, -100, 0>>,
                  <<750, 250, -100, 0>>, <<0, 1000, -55, -55>>, <<0, 1000, 0, -100>>}
TickBins == 4

VARIABLES
  \* --- inputs and result of one call of getPeaksFromArray
  pkArr, pkNyquist, pkFreqMin, pkFreqMax, pkCount, pkDelta, pkResult, pkDone,
  \* --- SpectrumGraph and the settings inputs the render tick reads
  peakHoldArray,     \* SpectrumGraph.peakHoldArray
  dataArray,         \* SpectrumGraph.dataArray, the frame of the last tick
  bufferLength,      \* SpectrumGraph.bufferLength
  latestPeaks,       \* SpectrumGraph.latestPeaks
  scriptLatestPeaks, \* latestPeaks of js/script.js
  togglePeakHold,    \* togglePeakHold.checked
  freqMin, freqMax, dbMin, peakCount, peakDelta,   \* the inputs' values
  hOp,               \* the operation that led to this state
  heldBefore,        \* history: number of peaks held just before hOp
  \* --- the audio handler, the page's playback state and the render loop
  running,           \* audioHandler.running
  recording,         \* audioHandler.recording
  recorderState,     \* mediaRecorder.state: "inactive" | "recording"
  analyser,          \* the analyser spectrumGraph.analyser refers to
  isLiveMode,        \* spectrumGraph.isLiveMode: "undefined" | "true" | "false"
  loopsLive,         \* pending animation-frame callbacks drawSpectrum(true)
  loopsPlay,         \* pending animation-frame callbacks drawSpectrum(false)
  audioBuffer,       \* a decoded buffer is loaded
  playbackBar,       \* playbackBar.style.display === 'flex'
  isPlaying,
  isPaused,
  playbackSource,    \* "null" | "playing" | "ended"
  orphans,           \* started buffer sources no variable refers to any more
  endedQueue,        \* why each stopped source whose 'ended' event is yet to fire was stopped
  controlsDisabled,  \* startBtn, fftSizeSelect and settingsBtn are disabled
  playBtnShown,      \* playBtn is displayed (pauseBtn is hidden)
  lastRead,          \* what the last step's getFloatFrequencyData read from
  \* --- playback position, clock and scrubbing
  graphComplete,     \* spectrumGraph has unfreeze, freeze, setScrubMode, drawScrub
  pOp,               \* the handler that ran last
  now,               \* audioCtx.currentTime and performance.now(), in ticks of 25 ms
  playbackStartTime,
  currentBufferPosition,
  sourceOffset,      \* the offset of the last playbackSource.start(0, offset)
  playbackLine,      \* --playback-position: "offset" (the position) | "end" (100%)
  pausedAt,          \* history: the offset the last pause stored, -1 once it is used or replaced
  scrubPos,          \* the pointer's position on the waveform, as an offset
  scrubMoved,        \* the pointer has moved in this gesture
  lastScrubUpdate,
  recordedBlob,      \* recordedBlob holds the encoded recording, for download
  gestureOnly,       \* history: since pointer-down only the gesture's handlers and onended ran
  scrubRequestAt,    \* history: when the gesture's last spectrum request was made, -1 if none
  scrubGap,          \* history: ticks between the last two spectrum requests of the gesture
  \* --- one render tick of drawSpectrum, statement by statement
  dbMax,             \* the dbMax input's value
  tPc,               \* where the tick stands: "idle" | "line" | "holdLine" | "detect" | "labels"
  tBin,              \* the loop variable i of the spectrum-line loop
  tCoords,           \* kinds of the coordinates this tick or redraw passed to draw calls
  tDivZero,          \* this tick or redraw divided by a zero range
  tStep,             \* history: statements of the tick executed so far
  tFirstDataDraw,    \* history: step of the tick's first moveTo/lineTo/fillText of data, 0 if none
  tLastHoldWrite,    \* history: step of the tick's last bin of the peak-hold update, 0 if none
  tDetectAt,         \* history: step at which getPeaksFromArray ran, 0 if not yet
  tHoldAtStart,      \* history: the peak-hold array when the tick began
  tDrawnHold,        \* history: the peak-hold array as the hold line drew it
  tLabels,           \* the peaks the tick drew labels for
  csv,               \* the lines of the last exported peaks.csv
  \* --- the mode indicator
  isScrubbing,       \* the user is dragging the waveform pointer
  currentMode,
  modeDone,          \* updateModeIndicator ran after the last change of a flag
  \* --- inputs and results of the pure functions
  audioData,         \* createWAVFile: the samples, as numerators over SampleDen
  sampleRate,        \* createWAVFile: the sample rate
  arrayBuffer,       \* createWAVFile: the bytes returned, <<>> before the call
  noteFreq,          \* frequencyToNote: the argument, a number in hundredths of a hertz
  noteLabel,         \* SpectrumGraph.frequencyToNote: the string returned, NoLabel before the call
  mapIn,             \* the range, canvas size and point of one coordinate mapping
  mapOut,            \* the plotted point and the point the pointer mapping reads back,
                     \* each number a fraction <<numerator, denominator>>
  \* --- the on-demand spectrum of scrubbing
  channelData,       \* getFrequencyDataFromAudioBuffer: audioBuffer.getChannelData(0)
  timePosition,      \* its argument timePosition, in half sample periods
  windowSize,        \* its argument fftSize
  windowedData,      \* the window it extracted, <<>> before the call
  fftSizeValue,      \* fftSizeSelect.value
  graphBins,         \* spectrumGraph.dataArray.length and peakHoldArray.length, 0 before
                     \* setAudioContext
  frameCopy,         \* the last spectrumGraph.dataArray.set(frequencyData)
  \* --- what Download exports, and the audio contexts of the handler
  bufferFrom,        \* the source of the data on the page: "none" | "file" | "recording"
  downloaded,        \* what the last Download exported
  openContexts       \* AudioContexts the audio handler created and nobody closed

peakVars == <<pkArr, pkNyquist, pkFreqMin, pkFreqMax, pkCount, pkDelta, pkResult, pkDone>>
holdVars == <<peakHoldArray, dataArray, bufferLength, latestPeaks, scriptLatestPeaks,
              togglePeakHold, freqMin, freqMax, dbMin, peakCount, peakDelta, hOp,
              heldBefore>>
appVars == <<running, recording, recorderState, analyser, isLiveMode, loopsLive, loopsPlay,
             audioBuffer, playbackBar, isPlaying, isPaused, playbackSource, orphans,
             endedQueue, controlsDisabled, playBtnShown, lastRead>>
clockVars == <<now, playbackStartTime, currentBufferPosition, sourceOffset, playbackLine,
               pausedAt>>
scrubVars == <<scrubPos, scrubMoved, lastScrubUpdate, scrubRequestAt, scrubGap>>
playVars == <<graphComplete, pOp, clockVars, scrubVars, gestureOnly, recordedBlob>>
modeVars == <<isScrubbing, currentMode, modeDone>>
tickVars == <<dbMax, tPc, tBin, tCoords, tDivZero, tStep, tFirstDataDraw, tLastHoldWrite,
              tDetectAt, tHoldAtStart, tDrawnHold, tLabels>>
drawVars == <<tickVars, csv>>
pureVars == <<audioData, sampleRate, arrayBuffer, noteFreq, noteLabel, mapIn, mapOut>>
windowVars == <<channelData, timePosition, windowSize, windowedData>>
frameVars == <<fftSizeValue, graphBins, frameCopy>>
exportVars == <<bufferFrom, downloaded, openContexts>>
lateVars == <<windowVars, frameVars, exportVars>>
vars == <<peakVars, holdVars, appVars, playVars, modeVars, drawVars, pureVars, lateVars>>

\* ------------------------------------------------------------ helpers
Length(arr) == Cardinality(DOMAIN arr)
Abs(x) == IF x < 0 THEN -x ELSE x
EmptyArray == [i \in {} |-> NegInf]
ArraysOf(n, vals) == [0..(n - 1) -> vals]
ArraysUpTo(n, vals) == UNION {ArraysOf(k, vals) : k \in 0..n}

\* ------------------------------------------------- getPeaksFromArray
\* mutant: a plateau edge counts as a peak (>= for >)
IsLocalMaxOrPlateau(arr, i) == arr[i] >= arr[i - 1] /\ arr[i] >= arr[i + 1]

\* arr[i] > arr[i - 1] && arr[i] > arr[i + 1]
IsLocalMax(arr, i) == arr[i] > arr[i - 1] /\ arr[i] > arr[i + 1]

\* mutant: only the lower end of the range is tested
OutOfRangeBelow(arr, i, nyquist, freqMinVal, freqMaxVal) ==
  i * nyquist < freqMinVal * Length(arr)

\* freq < freqMinVal || freq > freqMaxVal, with freq = i / arr.length * nyquist
OutOfRange(arr, i, nyquist, freqMinVal, freqMaxVal) ==
  \/ i * nyquist < freqMinVal * Length(arr)
  \/ i * nyquist > freqMaxVal * Length(arr)

\* the scan loop: for (let i = 1; i < arr.length - 1; i++) ... peaks.push
RECURSIVE ScanPeaks(_, _, _, _, _, _)
ScanPeaks(arr, i, nyquist, freqMinVal, freqMaxVal, peaks) ==
  IF ~(i < Length(arr) - 1) THEN peaks
  ELSE IF IsLocalMax(arr, i) /\ ~OutOfRange(arr, i, nyquist, freqMinVal, freqMaxVal)
       THEN ScanPeaks(arr, i + 1, nyquist, freqMinVal, freqMaxVal,
                      Append(peaks, [bin |-> i, freqN |-> i * nyquist, db |-> arr[i]]))
       ELSE ScanPeaks(arr, i + 1, nyquist, freqMinVal, freqMaxVal, peaks)

\* the comparator (a, b) => b.db - a.db: negative when a goes before b
CompareDb(a, b) == b.db - a.db

\* peaks.sort(comparator): Array.prototype.sort is stable, so an element is
\* inserted behind every element that does not compare after it
RECURSIVE InsertSorted(_, _)
InsertSorted(sorted, p) ==
  IF sorted = <<>> THEN <<p>>
  ELSE IF CompareDb(Head(sorted), p) <= 0
       THEN <<Head(sorted)>> \o InsertSorted(Tail(sorted), p)
       ELSE <<p>> \o sorted

RECURSIVE SortPeaks(_, _, _)
SortPeaks(peaks, k, sorted) ==
  IF k > Len(peaks) THEN sorted
  ELSE SortPeaks(peaks, k + 1, InsertSorted(sorted, peaks[k]))

\* mutant: the separation test is not strict (>= for >)
FarFromAllOrEqual(selected, p, n, peakDeltaVal) ==
  \A k \in 1..Len(selected) : Abs(selected[k].freqN - p.freqN) >= peakDeltaVal * n

\* selected.every(s => Math.abs(s.freq - p.freq) > peakDelta)
FarFromAll(selected, p, n, peakDeltaVal) ==
  \A k \in 1..Len(selected) : Abs(selected[k].freqN - p.freqN) > peakDeltaVal * n

\* mutant: the count test is off by one (> for >=)
CountExceeded(selected, peakCountVal) == Len(selected) > peakCountVal

\* if (selected.length >= peakCount) break;
CountReached(selected, peakCountVal) == Len(selected) >= peakCountVal

\* the greedy loop: for (let p of peaks) { break / push }
RECURSIVE SelectPeaks(_, _, _, _, _, _)
SelectPeaks(peaks, k, n, peakCountVal, peakDeltaVal, selected) ==
  IF k > Len(peaks) THEN selected
  ELSE IF CountReached(selected, peakCountVal) THEN selected
  ELSE IF FarFromAll(selected, peaks[k], n, peakDeltaVal)
       THEN SelectPeaks(peaks, k + 1, n, peakCountVal, peakDeltaVal, Append(selected, peaks[k]))
       ELSE SelectPeaks(peaks, k + 1, n, peakCountVal, peakDeltaVal, selected)

getPeaksFromArray(arr, nyquist, freqMinVal, freqMaxVal, peakCountVal, peakDeltaVal) ==
  LET peaks == ScanPeaks(arr, 1, nyquist, freqMinVal, freqMaxVal, <<>>)
      sorted == SortPeaks(peaks, 1, <<>>)
  IN  SelectPeaks(sorted, 1, Length(arr), peakCountVal, peakDeltaVal, <<>>)

\* ------------------------------------------------ state after construction
\* SpectrumGraph constructor; the inputs hold their defaults
HoldIdle ==
  /\ peakHoldArray = EmptyArray
  /\ dataArray = EmptyArray
  /\ bufferLength = 0
  /\ latestPeaks = <<>>
  /\ scriptLatestPeaks = <<>>
  /\ togglePeakHold = TRUE
  /\ freqMin = 0
  /\ freqMax = 1000
  /\ dbMin = -100
  /\ peakCount = 5
  /\ peakDelta = 1
  /\ hOp = "init"
  /\ heldBefore = 0

PeakIdle ==
  /\ pkArr = EmptyArray
  /\ pkNyquist = 1000
  /\ pkFreqMin = 0
  /\ pkFreqMax = 1000
  /\ pkCount = 0
  /\ pkDelta = 1
  /\ pkResult = <<>>
  /\ pkDone = FALSE

\* state after the page's script has run: nothing started, nothing loaded
AppIdle ==
  /\ running = FALSE
  /\ recording = FALSE
  /\ recorderState = "inactive"
  /\ analyser = "none"
  /\ isLiveMode = "undefined"
  /\ loopsLive = 0
  /\ loopsPlay = 0
  /\ audioBuffer = FALSE
  /\ playbackBar = FALSE
  /\ isPlaying = FALSE
  /\ isPaused = FALSE
  /\ playbackSource = "null"
  /\ orphans = 0
  /\ endedQueue = <<>>
  /\ controlsDisabled = FALSE
  /\ playBtnShown = TRUE
  /\ lastRead = "none"

\* let currentBufferPosition = 0, playbackStartTime = 0, lastScrubUpdate = 0;
\* the graph class is the one of this source or one that has the methods
\* js/script.js calls on it
PlayIdle ==
  /\ graphComplete \in BOOLEAN
  /\ pOp = "init"
  /\ now = 0
  /\ playbackStartTime = 0
  /\ currentBufferPosition = 0
  /\ sourceOffset = 0
  /\ playbackLine = "offset"
  /\ pausedAt = -1
  /\ scrubPos = 0
  /\ scrubMoved = FALSE
  /\ lastScrubUpdate = 0
  /\ scrubRequestAt = -1
  /\ scrubGap = ScrubThrottle
  /\ gestureOnly = FALSE
  /\ recordedBlob = FALSE

\* const AppState = {...}
AppState ==
  [IDLE |-> "Idle", LIVE |-> "Live Mode", RECORDING |-> "Recording Mode",
   PLAYBACK_READY |-> "Playback Mode", PLAYING |-> "Playback Mode"]

\* let currentMode = AppState.IDLE
ModeIdle ==
  /\ isScrubbing = FALSE
  /\ currentMode = AppState.IDLE
  /\ modeDone = FALSE

NoFreq == [kind |-> "finite", centi |-> 0]
NoLabel == [name |-> "", octave |-> 0]
NoMapIn == [freqMin |-> 0, freqMax |-> 0, dbMin |-> 0, dbMax |-> 0, width |-> 0,
            height |-> 0, freq |-> 0, db |-> 0]
NoMapOut == [stage |-> "none", x |-> <<0, 1>>, y |-> <<0, 1>>, freq |-> <<0, 1>>,
             db |-> <<0, 1>>]

DrawIdle ==
  /\ dbMax = 0
  /\ tPc = "idle"
  /\ tBin = 0
  /\ tCoords = {}
  /\ tDivZero = FALSE
  /\ tStep = 0
  /\ tFirstDataDraw = 0
  /\ tLastHoldWrite = 0
  /\ tDetectAt = 0
  /\ tHoldAtStart = EmptyArray
  /\ tDrawnHold = EmptyArray
  /\ tLabels = <<>>
  /\ csv = <<>>

\* no pure function has been called
WavIdle ==
  /\ audioData = <<>>
  /\ sampleRate = 0
  /\ arrayBuffer = <<>>

NoteIdle ==
  /\ noteFreq = NoFreq
  /\ noteLabel = NoLabel

MapIdle ==
  /\ mapIn = NoMapIn
  /\ mapOut = NoMapOut

PureIdle == WavIdle /\ NoteIdle /\ MapIdle

NoCopy == [bins |-> 0, copied |-> 0, thrown |-> FALSE]

WindowIdle ==
  /\ channelData = <<>>
  /\ timePosition = 0
  /\ windowSize = 0
  /\ windowedData = <<>>

FrameIdle ==
  /\ fftSizeValue = 2048
  /\ graphBins = 0
  /\ frameCopy = NoCopy

ExportIdle ==
  /\ bufferFrom = "none"
  /\ downloaded = "none"
  /\ openContexts = 0

LateIdle == WindowIdle /\ FrameIdle /\ ExportIdle

\* ---------------------------------------------- specification SpecPeak
\* one call of the detector on inputs drawn from the bounded sets
InitPeak ==
  /\ pkArr \in ArraysUpTo(MaxBins, Levels)
  /\ pkNyquist \in NyquistVals
  /\ pkFreqMin \in FreqMinVals
  /\ pkFreqMax \in FreqMaxVals
  /\ pkCount \in PeakCountVals
  /\ pkDelta \in PeakDeltaVals
  /\ pkResult = <<>>
  /\ pkDone = FALSE
  /\ HoldIdle
  /\ AppIdle
  /\ PlayIdle
  /\ ModeIdle
  /\ DrawIdle
  /\ PureIdle
  /\ LateIdle

CallGetPeaks ==
  /\ ~pkDone
  /\ pkResult' = getPeaksFromArray(pkArr, pkNyquist, pkFreqMin, pkFreqMax, pkCount, pkDelta)
  /\ pkDone' = TRUE
  /\ UNCHANGED <<pkArr, pkNyquist, pkFreqMin, pkFreqMax, pkCount, pkDelta>>
  /\ UNCHANGED <<holdVars, appVars, playVars, modeVars, drawVars, pureVars, lateVars>>

NextPeak == CallGetPeaks

SpecPeak == InitPeak /\ [][NextPeak]_vars

\* C1: any two distinct peaks of the returned list are more than peakDelta
\* apart in frequency
PeakSeparation ==
  pkDone =>
    \A a, b \in 1..Len(pkResult) :
      a # b => Abs(pkResult[a].freqN - pkResult[b].freqN) > pkDelta * Length(pkArr)

\* two peaks were returned with a minimum separation that rejects neighbours
PeakSeparationWitness ==
  /\ pkDone
  /\ Len(pkResult) >= 2
  /\ pkDelta = 400

Max0(x) == IF x < 0 THEN 0 ELSE x

ReallocPeakHold(hold, n) ==
  IF Length(hold) # n THEN [i \in 0..(n - 1) |-> NegInf] ELSE hold

\* mutant: the held maximum is overwritten by the frame's value
HoldOverwrite(hold, i, val, checked) == IF checked THEN val ELSE hold[i]

\* mutant: the checkbox is not consulted
HoldIgnoresToggle(hold, i, val, checked) == IF val > hold[i] THEN val ELSE hold[i]

\* if (this.togglePeakHold.checked && val > this.peakHoldArray[i])
\*   this.peakHoldArray[i] = val;
HoldUpdate(hold, i, val, checked) ==
  IF checked /\ val > hold[i] THEN val ELSE hold[i]

MaxOf(a, b) == IF a > b THEN a ELSE b

\* the spectrum-line loop of drawSpectrum: bins outside [freqMinVal,
\* freqMaxVal] are skipped (continue); val = Math.max(dataArray[i], dbMinVal)
InRange(i, n, nyquist, freqMinVal, freqMaxVal) ==
  ~(i * nyquist < freqMinVal * n \/ i * nyquist > freqMaxVal * n)

UpdatePeakHold(hold, frame, n, nyquist, freqMinVal, freqMaxVal, dbMinVal, checked) ==
  [i \in DOMAIN hold |->
     IF i < n /\ InRange(i, n, nyquist, freqMinVal, freqMaxVal)
     THEN HoldUpdate(hold, i, MaxOf(frame[i], dbMinVal), checked)
     ELSE hold[i]]

\* mutant: the click clears the peak list but leaves the array alone
ResetKeepsHold(hold) == hold

\* resetPeaks: this.peakHoldArray.fill(-Infinity)
resetPeaks(hold) == [i \in DOMAIN hold |-> NegInf]

InitHold == PeakIdle /\ HoldIdle /\ AppIdle /\ PlayIdle /\ ModeIdle /\ DrawIdle /\ PureIdle /\ LateIdle

\* spectrumGraph.setAudioContext(audioCtx, analyser, dataArray, bufferLength, ...)
\* with a fresh dataArray of bufferLength bins (new Float32Array: zeros)
SetAudioContext ==
  \E n \in BinCounts :
    /\ bufferLength' = n
    /\ dataArray' = [i \in 0..(n - 1) |-> 0]
    /\ peakHoldArray' = ReallocPeakHold(peakHoldArray, n)
    /\ heldBefore' = Len(latestPeaks)
    /\ hOp' = "setAudioContext"
    /\ UNCHANGED <<latestPeaks, scriptLatestPeaks, togglePeakHold, freqMin, freqMax,
                   dbMin, peakCount, peakDelta>>

\* one tick of drawSpectrum: pull a frame, update the peak-hold array, detect
\* the peaks on the peak-hold array
RenderTick ==
  /\ bufferLength > 0
  /\ \E frame \in ArraysOf(bufferLength, FrameLevels) :
       /\ dataArray' = frame
       /\ peakHoldArray' = UpdatePeakHold(peakHoldArray, frame, bufferLength, HoldNyquist,
                                          freqMin, freqMax, dbMin, togglePeakHold)
       /\ latestPeaks' = getPeaksFromArray(peakHoldArray', HoldNyquist, freqMin, freqMax,
                                           peakCount, peakDelta)
  /\ heldBefore' = Len(latestPeaks)
  /\ hOp' = "tick"
  /\ UNCHANGED <<bufferLength, scriptLatestPeaks, togglePeakHold, freqMin, freqMax,
                 dbMin, peakCount, peakDelta>>

\* click on the spectrum canvas: both listeners run, SpectrumGraph's
\* resetPeaks and the handler of js/script.js (which fills the audio
\* handler's own array and clears the script's latestPeaks)
CanvasClick ==
  /\ peakHoldArray' = resetPeaks(peakHoldArray)
  /\ latestPeaks' = <<>>
  /\ scriptLatestPeaks' = <<>>
  /\ heldBefore' = Len(latestPeaks)
  /\ hOp' = "click"
  /\ UNCHANGED <<dataArray, bufferLength, togglePeakHold, freqMin, freqMax, dbMin,
                 peakCount, peakDelta>>

\* the peak-hold checkbox is flipped
TogglePeakHold ==
  /\ togglePeakHold' = ~togglePeakHold
  /\ heldBefore' = Len(latestPeaks)
  /\ hOp' = "toggle"
  /\ UNCHANGED <<peakHoldArray, dataArray, bufferLength, latestPeaks, scriptLatestPeaks,
                 freqMin, freqMax, dbMin, peakCount, peakDelta>>

\* the user edits the range and peak inputs
ChangeSettings ==
  /\ \E v \in SettingsVals :
       /\ v # <<freqMin, freqMax, dbMin, peakCount, peakDelta>>
       /\ freqMin' = v[1]
       /\ freqMax' = v[2]
       /\ dbMin' = v[3]
       /\ peakCount' = v[4]
       /\ peakDelta' = v[5]
  /\ heldBefore' = Len(latestPeaks)
  /\ hOp' = "settings"
  /\ UNCHANGED <<peakHoldArray, dataArray, bufferLength, latestPeaks, scriptLatestPeaks,
                 togglePeakHold>>

NextHold ==
  \/ (SetAudioContext /\ UNCHANGED <<lateVars, pureVars, drawVars, peakVars, appVars, playVars, modeVars>>)
  \/ (RenderTick /\ UNCHANGED <<lateVars, pureVars, drawVars, peakVars, appVars, playVars, modeVars>>)
  \/ (CanvasClick /\ UNCHANGED <<lateVars, pureVars, drawVars, peakVars, appVars, playVars, modeVars>>)
  \/ (TogglePeakHold /\ UNCHANGED <<lateVars, pureVars, drawVars, peakVars, appVars, playVars, modeVars>>)
  \/ (ChangeSettings /\ UNCHANGED <<lateVars, pureVars, drawVars, peakVars, appVars, playVars, modeVars>>)

SpecHold == InitHold /\ [][NextHold]_vars

\* C3: over any step that is neither a reset (canvas click) nor a
\* re-allocation of the array, in particular over every render tick, no
\* element of the peak-hold array decreases
PeakHoldMonotone ==
  [][(hOp' \in {"tick", "toggle", "settings"}) =>
       /\ DOMAIN peakHoldArray' = DOMAIN peakHoldArray
       /\ \A i \in DOMAIN peakHoldArray : peakHoldArray'[i] >= peakHoldArray[i]]_vars

\* a tick with peak-hold enabled kept a held value above the current frame
PeakHoldMonotoneWitness ==
  /\ hOp = "tick"
  /\ togglePeakHold
  /\ \E i \in DOMAIN dataArray :
       /\ InRange(i, bufferLength, HoldNyquist, freqMin, freqMax)
       /\ MaxOf(dataArray[i], dbMin) < peakHoldArray[i]

\* C4: after a click on the spectrum canvas every element of the peak-hold
\* array the render loop updates and draws is -Infinity and peak detection on
\* it returns no peaks
ResetClearsState ==
  hOp = "click" =>
    /\ \A i \in DOMAIN peakHoldArray : peakHoldArray[i] = NegInf
    /\ getPeaksFromArray(peakHoldArray, HoldNyquist, freqMin, freqMax, peakCount,
                         peakDelta) = <<>>
    /\ latestPeaks = <<>>

\* a click came while a peak was held and labelled
ResetClearsStateWitness ==
  /\ hOp = "click"
  /\ heldBefore > 0
  /\ bufferLength > 0

\* C12: when the bin count goes from N to M the peak-hold array afterwards has
\* length M, keeps the old value at every index below min(N, M) and holds
\* -Infinity from index N upward ([-50,-60] resized to 4 gives
\* [-50,-60,-Infinity,-Infinity])
ResizeKeepsPrefix ==
  [][(hOp' = "setAudioContext" /\ bufferLength > 0 /\ bufferLength' # bufferLength) =>
       /\ Length(peakHoldArray') = bufferLength'
       /\ \A i \in DOMAIN peakHoldArray' :
            peakHoldArray'[i] = IF i \in DOMAIN peakHoldArray THEN peakHoldArray[i]
                                ELSE NegInf]_vars

\* C13: a render tick that runs while peak-hold is disabled leaves every
\* element of the peak-hold array unchanged
DisabledHoldFrozen ==
  [][(hOp' = "tick" /\ ~togglePeakHold) => peakHoldArray' = peakHoldArray]_vars

\* a tick with peak-hold disabled saw a frame above a held value
DisabledHoldFrozenWitness ==
  /\ hOp = "tick"
  /\ ~togglePeakHold
  /\ \E i \in DOMAIN peakHoldArray :
       /\ InRange(i, bufferLength, HoldNyquist, freqMin, freqMax)
       /\ peakHoldArray[i] > NegInf
       /\ MaxOf(dataArray[i], dbMin) > peakHoldArray[i]

\* reference procedure of C10, stated on bins
RefCandidates ==
  {i \in 1..(Length(pkArr) - 2) :
      /\ pkArr[i] > pkArr[i - 1]
      /\ pkArr[i] > pkArr[i + 1]
      /\ pkFreqMin * Length(pkArr) <= i * pkNyquist
      /\ i * pkNyquist <= pkFreqMax * Length(pkArr)}

\* i is sorted before j: larger magnitude first, equal magnitudes in scan order
RefBefore(i, j) == pkArr[i] > pkArr[j] \/ (pkArr[i] = pkArr[j] /\ i < j)

ResultBins == {pkResult[k].bin : k \in 1..Len(pkResult)}

ExampleInput ==
  /\ pkArr = (0 :> -100 @@ 1 :> -40 @@ 2 :> -90 @@ 3 :> -90 @@ 4 :> -35 @@ 5 :> -90)
  /\ pkNyquist = 1000
  /\ pkFreqMin = 0
  /\ pkFreqMax = 1000
  /\ pkCount = 5
  /\ pkDelta = 1

AllLocalMaxima == {i \in 1..(Length(pkArr) - 2) : IsLocalMax(pkArr, i)}

DeriveModePlayingFirst(rec, playing, ready, live) ==
  IF playing THEN AppState.PLAYING
  ELSE IF rec THEN AppState.RECORDING
  ELSE IF ready THEN AppState.PLAYBACK_READY
  ELSE IF live THEN AppState.LIVE
  ELSE AppState.IDLE

\* mutant: the live branch is tested before the loaded-buffer branch
DeriveModeLiveFirst(rec, playing, ready, live) ==
  IF rec THEN AppState.RECORDING
  ELSE IF playing THEN AppState.PLAYING
  ELSE IF live THEN AppState.LIVE
  ELSE IF ready THEN AppState.PLAYBACK_READY
  ELSE AppState.IDLE

\* the if / else-if chain of updateModeIndicator; ready stands for
\* audioBuffer && playbackBar.style.display === 'flex'
DeriveMode(rec, playing, ready, live) ==
  IF rec THEN AppState.RECORDING
  ELSE IF playing THEN AppState.PLAYING
  ELSE IF ready THEN AppState.PLAYBACK_READY
  ELSE IF live THEN AppState.LIVE
  ELSE AppState.IDLE

InitMode ==
  /\ PeakIdle
  /\ HoldIdle
  /\ AppIdle
  /\ PlayIdle
  /\ ModeIdle
  /\ DrawIdle
  /\ PureIdle
  /\ LateIdle

\* a handler assigns one of the flags the mode is derived from
FlipFlag ==
  /\ \/ recording' = ~recording
          /\ UNCHANGED <<isScrubbing, isPlaying, audioBuffer, playbackBar, running>>
     \/ isScrubbing' = ~isScrubbing
          /\ UNCHANGED <<recording, isPlaying, audioBuffer, playbackBar, running>>
     \/ isPlaying' = ~isPlaying
          /\ UNCHANGED <<recording, isScrubbing, audioBuffer, playbackBar, running>>
     \/ audioBuffer' = ~audioBuffer
          /\ UNCHANGED <<recording, isScrubbing, isPlaying, playbackBar, running>>
     \/ playbackBar' = ~playbackBar
          /\ UNCHANGED <<recording, isScrubbing, isPlaying, audioBuffer, running>>
     \/ running' = ~running
          /\ UNCHANGED <<recording, isScrubbing, isPlaying, audioBuffer, playbackBar>>
  /\ modeDone' = FALSE
  /\ UNCHANGED <<currentMode, recorderState, analyser, isLiveMode, loopsLive, loopsPlay,
                 isPaused, playbackSource, orphans, endedQueue, controlsDisabled,
                 playBtnShown, lastRead>>

UpdateModeIndicator ==
  /\ currentMode' = DeriveMode(recording, isPlaying, audioBuffer /\ playbackBar, running)
  /\ modeDone' = TRUE
  /\ UNCHANGED <<isScrubbing, appVars>>

NextMode ==
  \/ (FlipFlag /\ UNCHANGED <<lateVars, pureVars, drawVars, peakVars, holdVars, playVars>>)
  \/ (UpdateModeIndicator /\ UNCHANGED <<lateVars, pureVars, drawVars, peakVars, holdVars, playVars>>)

SpecMode == InitMode /\ [][NextMode]_vars

\* C5: whenever a recording is in progress the derived mode is Recording,
\* whatever the other flags are
RecordingDominates ==
  (modeDone /\ recording) => currentMode = AppState.RECORDING

\* the example of the claim: recording and playing at once
RecordingDominatesWitness ==
  /\ modeDone
  /\ recording
  /\ isPlaying
  /\ currentMode = "Recording Mode"

\* the first match in the order Recording, Scrubbing, Playing, PlaybackReady,
\* Live, Idle
FirstMatch ==
  IF recording THEN "Recording"
  ELSE IF isScrubbing THEN "Scrubbing"
  ELSE IF isPlaying THEN "Playing"
  ELSE IF audioBuffer /\ playbackBar THEN "PlaybackReady"
  ELSE IF running THEN "Live"
  ELSE "Idle"

\* the value that stands for a mode: the program's where it has one
ModeValue(m) ==
  CASE m = "Recording" -> AppState.RECORDING
    [] m = "Playing" -> AppState.PLAYING
    [] m = "PlaybackReady" -> AppState.PLAYBACK_READY
    [] m = "Live" -> AppState.LIVE
    [] m = "Idle" -> AppState.IDLE
    [] OTHER -> m

SixModes == {"Recording", "Scrubbing", "Playing", "PlaybackReady", "Live", "Idle"}

Min(a, b) == IF a < b THEN a ELSE b

\* what getFloatFrequencyData reads when the graph's analyser is an and the
\* handler's running flag is run
ReadKind(an, run) ==
  CASE an = "playback" -> "playback"
    [] an = "live" /\ run -> "live"
    [] an = "live" /\ ~run -> "stoppedLive"
    [] an = "stale" /\ run -> "staleLive"
    [] an = "stale" /\ ~run -> "stoppedLive"
    [] OTHER -> "none"

\* drawSpectrum(isLiveMode): if (isLiveMode !== this.isLiveMode) return;
LoopContinues(param, graphMode) == param = graphMode

\* the callbacks that will go on to pull data and draw
AliveLoops ==
  (IF LoopContinues("true", isLiveMode) THEN loopsLive ELSE 0)
  + (IF LoopContinues("false", isLiveMode) THEN loopsPlay ELSE 0)

\* spectrumGraph.setAudioContext(..., true); spectrumGraph.draw(): the first
\* drawSpectrum(true) runs at once, schedules the next and reads the
\* analyser (callbacks beyond MaxLoops are not counted)
SetLiveAndDraw ==
  /\ analyser' = "live"
  /\ isLiveMode' = "true"
  /\ loopsLive' = Min(loopsLive + 1, MaxLoops)
  /\ lastRead' = "live"

\* mutant: the controls disabled for the recording stay disabled
AcquisitionFailedControlsStuck ==
  /\ controlsDisabled' = TRUE
  /\ lastRead' = "none"
  /\ UNCHANGED <<running, recording, recorderState, analyser, isLiveMode, loopsLive>>

\* startLiveVisualization returned false: getUserMedia rejected before the
\* handler's fields were assigned; the click handler alerts and puts the
\* controls back
AcquisitionFailed ==
  /\ controlsDisabled' = FALSE
  /\ lastRead' = "none"
  /\ UNCHANGED <<running, recording, recorderState, analyser, isLiveMode, loopsLive>>

InitApp == PeakIdle /\ HoldIdle /\ AppIdle /\ PlayIdle /\ ModeIdle /\ DrawIdle /\ PureIdle /\ LateIdle

\* startBtn.onclick while live is not running; ok: startLiveVisualization
\* got the stream
StartLive ==
  /\ UNCHANGED recordedBlob
  /\ gestureOnly' = FALSE
  /\ ~controlsDisabled
  /\ ~running
  /\ isPlaying' = FALSE
  /\ playBtnShown' = (playBtnShown \/ isPlaying)
  /\ \E ok \in BOOLEAN :
       IF ok
       THEN /\ running' = TRUE
            /\ SetLiveAndDraw
            /\ pOp' = "startLive"
            /\ UNCHANGED <<recording, recorderState, controlsDisabled>>
       ELSE /\ AcquisitionFailed
            /\ pOp' = "startLiveFailed"
  /\ UNCHANGED <<loopsPlay, audioBuffer, playbackBar, isPaused, playbackSource, orphans,
                 endedQueue, graphComplete, clockVars, scrubVars>>

\* startBtn.onclick while live is running: stopLiveVisualization
StopLive ==
  /\ UNCHANGED recordedBlob
  /\ gestureOnly' = FALSE
  /\ ~controlsDisabled
  /\ running
  /\ isPlaying' = FALSE
  /\ playBtnShown' = (playBtnShown \/ isPlaying)
  /\ running' = FALSE
  /\ lastRead' = "none"
  /\ pOp' = "stopLive"
  /\ UNCHANGED <<recording, recorderState, analyser, isLiveMode, loopsLive, loopsPlay,
                 audioBuffer, playbackBar, isPaused, playbackSource, orphans,
                 endedQueue, controlsDisabled, graphComplete, clockVars, scrubVars>>

\* the change handler of fftSizeSelect while live is running: stop, start
\* again, and on success setAudioContext and draw()
FftSizeChange ==
  /\ UNCHANGED recordedBlob
  /\ gestureOnly' = FALSE
  /\ ~controlsDisabled
  /\ running
  /\ \E ok \in BOOLEAN :
       IF ok
       THEN /\ running' = TRUE
            /\ SetLiveAndDraw
       ELSE /\ running' = FALSE
            /\ lastRead' = "none"
            /\ UNCHANGED <<analyser, isLiveMode, loopsLive>>
  /\ pOp' = "fftSizeChange"
  /\ UNCHANGED <<recording, recorderState, loopsPlay, audioBuffer, playbackBar, isPlaying,
                 isPaused, playbackSource, orphans, endedQueue, controlsDisabled,
                 playBtnShown, graphComplete, clockVars, scrubVars>>

\* recordBtn.onclick while not recording; liveOk: the live stream could be
\* started where it was not running, recOk: mediaRecorder.start() succeeded
RecordStart ==
  /\ UNCHANGED recordedBlob
  /\ gestureOnly' = FALSE
  /\ ~recording
  /\ \E liveOk, recOk \in BOOLEAN :
       IF ~running /\ ~liveOk
       THEN /\ AcquisitionFailed
            /\ pOp' = "recordStartFailed"
       ELSE /\ running' = TRUE
            /\ IF recOk
               THEN /\ recording' = TRUE
                    /\ recorderState' = "recording"
                    /\ controlsDisabled' = TRUE
                    /\ SetLiveAndDraw
                    /\ pOp' = "recordStart"
               ELSE /\ analyser' = IF ~running /\ analyser = "live" THEN "stale" ELSE analyser
                    /\ lastRead' = "none"
                    /\ controlsDisabled' = FALSE
                    /\ pOp' = "recorderFailed"
                    /\ UNCHANGED <<recording, recorderState, isLiveMode, loopsLive>>
  /\ UNCHANGED <<loopsPlay, audioBuffer, playbackBar, isPlaying, isPaused, playbackSource,
                 orphans, endedQueue, playBtnShown, graphComplete, clockVars, scrubVars>>

\* mutant: a failed decode leaves the buffer of an earlier source in place
DecodeResultKeepsEarlier(decoded, earlier) == decoded \/ earlier

\* audioBuffer = await tempAudioCtx.decodeAudioData(arrayBuffer), and
\* audioBuffer = null in the catch block of a failed decode
DecodeResult(decoded, earlier) == decoded

\* recordBtn.onclick while recording; blob: stopRecording resolved with a
\* blob (it resolves with null, and leaves the recording flag set, when the
\* recorder is not recording or no chunk arrived), decoded: decodeAudioData
\* succeeded
RecordStop ==
  /\ gestureOnly' = FALSE
  /\ recording
  /\ \E blob, decoded \in BOOLEAN :
       IF blob /\ recorderState = "recording"
       THEN /\ recording' = FALSE
            /\ recordedBlob' = TRUE
            /\ audioBuffer' = DecodeResult(decoded, audioBuffer)
            /\ playbackBar' = TRUE
            /\ running' = FALSE
            /\ currentBufferPosition' = IF decoded THEN 0 ELSE currentBufferPosition
            /\ playbackLine' = IF decoded THEN "offset" ELSE playbackLine
            /\ pausedAt' = IF decoded THEN -1 ELSE pausedAt
            /\ pOp' = IF decoded THEN "recordStop" ELSE "recordStopUndecoded"
       ELSE /\ pOp' = "recordStopEmpty"
            /\ UNCHANGED <<recording, recordedBlob, audioBuffer, playbackBar, running,
                           currentBufferPosition, playbackLine, pausedAt>>
  /\ recorderState' = "inactive"
  /\ controlsDisabled' = FALSE
  /\ lastRead' = "none"
  /\ UNCHANGED <<analyser, isLiveMode, loopsLive, loopsPlay, isPlaying, isPaused,
                 playbackSource, orphans, endedQueue, playBtnShown, graphComplete, now,
                 playbackStartTime, sourceOffset, scrubVars>>

\* audioFileInput.onchange with a file that decodes (a file that does not
\* changes nothing): the buffer is kept, the playback bar shown, the
\* position reset, live stopped
LoadFile ==
  /\ UNCHANGED recordedBlob
  /\ gestureOnly' = FALSE
  /\ audioBuffer' = TRUE
  /\ playbackBar' = TRUE
  /\ running' = FALSE
  /\ currentBufferPosition' = 0
  /\ pausedAt' = -1
  /\ lastRead' = "none"
  /\ pOp' = "loadFile"
  /\ UNCHANGED <<recording, recorderState, analyser, isLiveMode, loopsLive, loopsPlay,
                 isPlaying, isPaused, playbackSource, orphans, endedQueue,
                 controlsDisabled, playBtnShown, graphComplete, now, playbackStartTime,
                 sourceOffset, playbackLine, scrubVars>>

\* clearBtn.onclick: playbackSource is set to null before the test that
\* would stop it, so a playing source plays on
ClearFile ==
  /\ UNCHANGED recordedBlob
  /\ gestureOnly' = FALSE
  /\ playbackBar
  /\ playbackSource = "playing" => orphans < MaxPending
  /\ audioBuffer' = FALSE
  /\ playbackSource' = "null"
  /\ orphans' = IF playbackSource = "playing" THEN orphans + 1 ELSE orphans
  /\ isPlaying' = FALSE
  /\ playbackBar' = FALSE
  /\ currentBufferPosition' = 0
  /\ playbackLine' = "offset"
  /\ pausedAt' = -1
  /\ lastRead' = "none"
  /\ pOp' = "clearFile"
  /\ UNCHANGED <<running, recording, recorderState, analyser, isLiveMode, loopsLive,
                 loopsPlay, isPaused, endedQueue, controlsDisabled, playBtnShown,
                 graphComplete, now, playbackStartTime, sourceOffset, scrubVars>>

\* playBtn.onclick (the button, or the space bar while nothing is flagged as
\* playing): playAudioBuffer stops the previous source, starts a new one at
\* the stored position and sets isPlaying; then spectrumGraph.unfreeze():
\* where the graph has no such method the call throws and the catch block
\* ends the handler there
Play ==
  /\ UNCHANGED recordedBlob
  /\ gestureOnly' = FALSE
  /\ audioBuffer
  /\ (playBtnShown /\ playbackBar) \/ ~isPlaying
  /\ playbackSource = "playing" => Len(endedQueue) < MaxPending
  /\ endedQueue' = IF playbackSource = "playing" THEN Append(endedQueue, "replaced")
                   ELSE endedQueue
  /\ playbackSource' = "playing"
  /\ playbackStartTime' = now
  /\ sourceOffset' = currentBufferPosition
  /\ playbackLine' = "offset"
  /\ pausedAt' = -1
  /\ isPlaying' = TRUE
  /\ pOp' = "play"
  /\ IF graphComplete
     THEN /\ analyser' = "playback"
          /\ isLiveMode' = "false"
          /\ loopsPlay' = Min(loopsPlay + 1, MaxLoops)
          /\ lastRead' = "playback"
          /\ playBtnShown' = FALSE
     ELSE /\ lastRead' = "none"
          /\ UNCHANGED <<analyser, isLiveMode, loopsPlay, playBtnShown>>
  /\ UNCHANGED <<running, recording, recorderState, loopsLive, audioBuffer, playbackBar,
                 isPaused, orphans, controlsDisabled, graphComplete, now,
                 currentBufferPosition, scrubVars>>

\* currentBufferPosition = currentBufferPosition + elapsed, with
\* elapsed = audioCtx.currentTime - playbackStartTime
PausePosition(position, start, clock) == position + (clock - start)

\* pauseBtn.onclick (the button, or the space bar while playing)
Pause ==
  /\ UNCHANGED recordedBlob
  /\ gestureOnly' = FALSE
  /\ isPlaying
  /\ playbackSource = "playing" => Len(endedQueue) < MaxPending
  /\ IF playbackSource # "null"
     THEN /\ currentBufferPosition' =
               PausePosition(currentBufferPosition, playbackStartTime, now)
          /\ isPaused' = TRUE
     ELSE UNCHANGED <<currentBufferPosition, isPaused>>
  /\ pausedAt' = currentBufferPosition'
  /\ endedQueue' = IF playbackSource = "playing" THEN Append(endedQueue, "pause")
                   ELSE endedQueue
  /\ playbackSource' = "null"
  /\ isPlaying' = FALSE
  /\ playBtnShown' = TRUE
  /\ lastRead' = "none"
  /\ pOp' = "pause"
  /\ UNCHANGED <<running, recording, recorderState, analyser, isLiveMode, loopsLive,
                 loopsPlay, audioBuffer, playbackBar, orphans, controlsDisabled,
                 graphComplete, now, playbackStartTime, sourceOffset, playbackLine,
                 scrubVars>>

\* playbackSource.onended: if (!isPaused) currentBufferPosition = 0
OnEndedPosition(paused, position) == IF ~paused THEN 0 ELSE position

\* playbackSource.onended
OnEnded ==
  /\ currentBufferPosition' = OnEndedPosition(isPaused, currentBufferPosition)
  /\ playbackLine' = IF ~isPaused THEN "end" ELSE playbackLine
  /\ isPlaying' = FALSE
  /\ isPaused' = FALSE
  /\ playBtnShown' = TRUE

\* the name of the step that delivers the 'ended' event of a stopped source
EndedOp == [pause |-> "endedPause", replaced |-> "endedReplaced", scrub |-> "endedScrub"]

\* a started source reaches the end of its buffer, or the 'ended' event of a
\* stopped source is delivered: onended runs. Events are delivered in the
\* order the sources stopped
SourceEnded ==
  /\ UNCHANGED recordedBlob
  /\ UNCHANGED gestureOnly
  /\ \/ /\ playbackSource = "playing"
        /\ endedQueue = <<>>
        /\ playbackSource' = "ended"
        /\ pOp' = "endedNatural"
        /\ pausedAt' = -1
        /\ UNCHANGED <<orphans, endedQueue>>
     \/ /\ orphans > 0
        /\ endedQueue = <<>>
        /\ orphans' = orphans - 1
        /\ pOp' = "endedOrphan"
        /\ UNCHANGED <<playbackSource, endedQueue, pausedAt>>
     \/ /\ endedQueue # <<>>
        /\ endedQueue' = Tail(endedQueue)
        /\ pOp' = EndedOp[Head(endedQueue)]
        /\ UNCHANGED <<playbackSource, orphans, pausedAt>>
  /\ OnEnded
  /\ lastRead' = "none"
  /\ UNCHANGED <<running, recording, recorderState, analyser, isLiveMode, loopsLive,
                 loopsPlay, audioBuffer, playbackBar, controlsDisabled, graphComplete,
                 now, playbackStartTime, sourceOffset, scrubVars>>

\* one animation frame: every pending drawSpectrum callback runs; one whose
\* parameter is not the graph's isLiveMode returns, the others schedule the
\* next callback and read the graph's analyser
AnimationFrame ==
  /\ UNCHANGED recordedBlob
  /\ UNCHANGED gestureOnly
  /\ loopsLive + loopsPlay > 0
  /\ loopsLive' = IF LoopContinues("true", isLiveMode) THEN loopsLive ELSE 0
  /\ loopsPlay' = IF LoopContinues("false", isLiveMode) THEN loopsPlay ELSE 0
  /\ lastRead' = IF AliveLoops > 0 THEN ReadKind(analyser, running) ELSE "none"
  /\ pOp' = "animationFrame"
  /\ UNCHANGED <<running, recording, recorderState, analyser, isLiveMode, audioBuffer,
                 playbackBar, isPlaying, isPaused, playbackSource, orphans, endedQueue,
                 controlsDisabled, playBtnShown, graphComplete, clockVars, scrubVars>>

Next ==
  \/ (StartLive /\ UNCHANGED <<lateVars, pureVars, drawVars, peakVars, holdVars, modeVars>>)
  \/ (StopLive /\ UNCHANGED <<lateVars, pureVars, drawVars, peakVars, holdVars, modeVars>>)
  \/ (FftSizeChange /\ UNCHANGED <<lateVars, pureVars, drawVars, peakVars, holdVars, modeVars>>)
  \/ (RecordStart /\ UNCHANGED <<lateVars, pureVars, drawVars, peakVars, holdVars, modeVars>>)
  \/ (RecordStop /\ UNCHANGED <<lateVars, pureVars, drawVars, peakVars, holdVars, modeVars>>)
  \/ (LoadFile /\ UNCHANGED <<lateVars, pureVars, drawVars, peakVars, holdVars, modeVars>>)
  \/ (ClearFile /\ UNCHANGED <<lateVars, pureVars, drawVars, peakVars, holdVars, modeVars>>)
  \/ (Play /\ UNCHANGED <<lateVars, pureVars, drawVars, peakVars, holdVars, modeVars>>)
  \/ (Pause /\ UNCHANGED <<lateVars, pureVars, drawVars, peakVars, holdVars, modeVars>>)
  \/ (SourceEnded /\ UNCHANGED <<lateVars, pureVars, drawVars, peakVars, holdVars, modeVars>>)
  \/ (AnimationFrame /\ UNCHANGED <<lateVars, pureVars, drawVars, peakVars, holdVars, modeVars>>)

Spec == InitApp /\ [][Next]_vars

\* C7: after any sequence of user operations at most one self-rescheduling
\* render loop is alive: never more than one pending drawSpectrum callback
\* that will go on to pull data and draw
OneRenderLoop == AliveLoops <= 1

\* C8: at most one audio source feeds the render loop at a time: no buffer
\* source is playing while the live source is connected to its analyser
\* (live mode running), whichever of the two was started last
OneActiveSource ==
  ~(running /\ (playbackSource = "playing" \/ orphans > 0))

\* C9: once stopping live mode has completed, no render tick reads frequency
\* data from the stopped live source's analyser until live is started again
NoReadAfterStop == lastRead # "stoppedLive"

\* ---------------------------------------------------------------------
\* specification SpecPlay: playback, its clock and the waveform pointer
\* (js/script.js: play, pause, onended, startScrubbing, updateScrubPosition,
\* stopScrubbing, the waveform's click handler)
\* ---------------------------------------------------------------------

\* audioCtx.currentTime and performance.now() advance
AdvanceTime ==
  /\ UNCHANGED recordedBlob
  /\ UNCHANGED gestureOnly
  /\ now < MaxTime
  /\ now' = now + 1
  /\ lastRead' = "none"
  /\ UNCHANGED <<running, recording, recorderState, analyser, isLiveMode, loopsLive,
                 loopsPlay, audioBuffer, playbackBar, isPlaying, isPaused, playbackSource,
                 orphans, endedQueue, controlsDisabled, playBtnShown, graphComplete, pOp,
                 playbackStartTime, currentBufferPosition, sourceOffset, playbackLine,
                 pausedAt, scrubVars, isScrubbing>>

\* spectrumGraph.draw() after an on-demand spectrum was copied into
\* dataArray: drawSpectrum(true) returns at once unless the graph is in live
\* mode, where it schedules one more self-rescheduling callback
DrawOnDemand(request, graphMode) ==
  IF request /\ LoopContinues("true", graphMode)
  THEN /\ loopsLive' = Min(loopsLive + 1, MaxLoops)
       /\ lastRead' = ReadKind(analyser, running)
  ELSE /\ lastRead' = "none"
       /\ UNCHANGED loopsLive

\* mousedown on the waveform: startScrubbing. A playing source is stopped and
\* the playing flag cleared; currentBufferPosition and isPaused are left as
\* they are. Where the graph has no setScrubMode the call throws (line 568
\* while playing, line 591 otherwise) and the handler ends there, before the
\* mousemove and mouseup listeners are added
StartScrubbing(p) ==
  /\ UNCHANGED recordedBlob
  /\ gestureOnly' = TRUE
  /\ audioBuffer
  /\ ~isScrubbing \/ ~graphComplete
  /\ (isPlaying /\ playbackSource = "playing") => Len(endedQueue) < MaxPending
  /\ isScrubbing' = TRUE
  /\ IF isPlaying
     THEN /\ endedQueue' = IF playbackSource = "playing" THEN Append(endedQueue, "scrub")
                           ELSE endedQueue
          /\ playbackSource' = "null"
          /\ isPlaying' = FALSE
          /\ playBtnShown' = TRUE
     ELSE UNCHANGED <<endedQueue, playbackSource, isPlaying, playBtnShown>>
  /\ isLiveMode' = IF isLiveMode = "true" /\ (graphComplete \/ ~isPlaying) THEN "false"
                   ELSE isLiveMode
  /\ scrubPos' = p
  /\ scrubMoved' = FALSE
  /\ IF graphComplete
     THEN /\ scrubRequestAt' = now
          /\ scrubGap' = ScrubThrottle
     ELSE UNCHANGED <<scrubRequestAt, scrubGap>>
  /\ DrawOnDemand(graphComplete, isLiveMode')
  /\ pOp' = "scrubStart"
  /\ UNCHANGED <<running, recording, recorderState, analyser, loopsPlay, audioBuffer,
                 playbackBar, isPaused, orphans, controlsDisabled, graphComplete,
                 clockVars, lastScrubUpdate>>

\* shouldUpdateSpectrum = (now - lastScrubUpdate) >= SCRUB_THROTTLE_MS
ThrottleOpen(clock, last) == clock - last >= ScrubThrottle

\* mousemove while scrubbing: updateScrubPosition
ScrubMove(p) ==
  /\ UNCHANGED recordedBlob
  /\ UNCHANGED gestureOnly
  /\ isScrubbing
  /\ audioBuffer
  /\ graphComplete
  /\ currentBufferPosition' = p
  /\ playbackLine' = "offset"
  /\ pausedAt' = -1
  /\ scrubPos' = p
  /\ scrubMoved' = TRUE
  /\ IF ThrottleOpen(now, lastScrubUpdate)
     THEN /\ lastScrubUpdate' = now
          /\ scrubGap' = IF scrubRequestAt >= 0 THEN now - scrubRequestAt ELSE scrubGap
          /\ scrubRequestAt' = now
     ELSE UNCHANGED <<lastScrubUpdate, scrubGap, scrubRequestAt>>
  /\ DrawOnDemand(ThrottleOpen(now, lastScrubUpdate), isLiveMode)
  /\ pOp' = "scrubMove"
  /\ UNCHANGED <<running, recording, recorderState, analyser, isLiveMode, loopsPlay,
                 audioBuffer, playbackBar, isPlaying, isPaused, playbackSource, orphans,
                 endedQueue, controlsDisabled, playBtnShown, graphComplete, now,
                 playbackStartTime, sourceOffset, isScrubbing>>

\* mouseup: stopScrubbing (a listener only where startScrubbing ran to its
\* end), then, if the pointer is released on the waveform, its click
\* handler (always, if the pointer never moved): unless the gesture counted
\* as a drag, it jumps to the pointer
StopScrubbing ==
  /\ UNCHANGED recordedBlob
  /\ UNCHANGED gestureOnly
  /\ isScrubbing
  /\ isScrubbing' = IF graphComplete THEN FALSE ELSE isScrubbing
  /\ \E click \in (IF scrubMoved THEN BOOLEAN ELSE {TRUE}) :
       \E isDragging \in (IF scrubMoved THEN BOOLEAN ELSE {FALSE}) :
         IF click /\ audioBuffer /\ ~isDragging
         THEN /\ currentBufferPosition' = scrubPos
              /\ playbackLine' = "offset"
              /\ pausedAt' = -1
              /\ DrawOnDemand(TRUE, isLiveMode)
         ELSE /\ DrawOnDemand(FALSE, isLiveMode)
              /\ UNCHANGED <<currentBufferPosition, playbackLine, pausedAt>>
  /\ scrubRequestAt' = -1
  /\ pOp' = "scrubStop"
  /\ UNCHANGED <<running, recording, recorderState, analyser, isLiveMode, loopsPlay,
                 audioBuffer, playbackBar, isPlaying, isPaused, playbackSource, orphans,
                 endedQueue, controlsDisabled, playBtnShown, graphComplete, now,
                 playbackStartTime, sourceOffset, scrubPos, scrubMoved, lastScrubUpdate,
                 scrubGap>>

NextPlay ==
  \/ (LoadFile /\ UNCHANGED <<lateVars, pureVars, drawVars, peakVars, holdVars, modeVars>>)
  \/ (ClearFile /\ UNCHANGED <<lateVars, pureVars, drawVars, peakVars, holdVars, modeVars>>)
  \/ (Play /\ UNCHANGED <<lateVars, pureVars, drawVars, peakVars, holdVars, modeVars>>)
  \/ (Pause /\ UNCHANGED <<lateVars, pureVars, drawVars, peakVars, holdVars, modeVars>>)
  \/ (SourceEnded /\ UNCHANGED <<lateVars, pureVars, drawVars, peakVars, holdVars, modeVars>>)
  \/ (AdvanceTime /\ UNCHANGED <<lateVars, pureVars, drawVars, peakVars, holdVars, currentMode, modeDone>>)
  \/ (\E p \in ScrubPositions :
        StartScrubbing(p) /\ UNCHANGED <<lateVars, pureVars, drawVars, peakVars, holdVars, currentMode, modeDone>>)
  \/ (\E p \in ScrubPositions :
        ScrubMove(p) /\ UNCHANGED <<lateVars, pureVars, drawVars, peakVars, holdVars, currentMode, modeDone>>)
  \/ (StopScrubbing /\ UNCHANGED <<lateVars, pureVars, drawVars, peakVars, holdVars, currentMode, modeDone>>)

SpecPlay == InitApp /\ [][NextPlay]_vars

\* C14: pausing during playback stops the buffer source and stores
\* offset = previous stored offset + time elapsed since the last Play, and
\* the next Play starts a source reading the buffer from exactly the offset
\* the pause stored, for any number of pause/resume cycles
PauseResumeOffset ==
  [][/\ (isPlaying /\ pOp' = "pause") =>
          /\ playbackSource' = "null"
          /\ currentBufferPosition' = currentBufferPosition + (now - playbackStartTime)
     /\ (pausedAt >= 0 /\ pOp' = "play") => sourceOffset' = pausedAt]_vars

\* C15: when playback reaches the end of the buffer by itself the stored
\* offset is reset to zero, the position indicator moved to the end and
\* playback no longer flagged as playing; when the source stopped because of
\* a pause, its 'ended' event does not reset the stored offset
EndedResetsOnlyAtNaturalEnd ==
  [][/\ (playbackSource = "playing" /\ playbackSource' = "ended") =>
          /\ currentBufferPosition' = 0
          /\ playbackLine' = "end"
          /\ ~isPlaying'
     /\ (endedQueue # <<>> /\ endedQueue' = Tail(endedQueue) /\ Head(endedQueue) = "pause") =>
          currentBufferPosition' = currentBufferPosition]_vars

\* C16: pointer-down on the waveform while playing first pauses playback as
\* the Pause transition does (source stopped, stored offset = previous
\* offset + elapsed time, playing flag cleared) and then computes the
\* spectrum on demand without starting playback or a render loop
ScrubStartPauses ==
  [][(isPlaying /\ pOp' = "scrubStart") =>
       /\ playbackSource' # "playing"
       /\ ~isPlaying'
       /\ currentBufferPosition' = currentBufferPosition + (now - playbackStartTime)
       /\ loopsLive' <= loopsLive
       /\ loopsPlay' <= loopsPlay]_vars

EmptyRecordingLeavesRecording ==
  [][(pOp' = "recordStopEmpty") =>
       /\ audioBuffer' = audioBuffer
       /\ ~recording'
       /\ DeriveMode(recording', isPlaying', audioBuffer' /\ playbackBar', running')
            # AppState.RECORDING]_vars

NextDecode ==
  \/ (RecordStart /\ UNCHANGED <<lateVars, pureVars, drawVars, peakVars, holdVars, modeVars>>)
  \/ (RecordStop /\ UNCHANGED <<lateVars, pureVars, drawVars, peakVars, holdVars, modeVars>>)
  \/ (LoadFile /\ UNCHANGED <<lateVars, pureVars, drawVars, peakVars, holdVars, modeVars>>)
  \/ (Play /\ UNCHANGED <<lateVars, pureVars, drawVars, peakVars, holdVars, modeVars>>)
  \/ (SourceEnded /\ UNCHANGED <<lateVars, pureVars, drawVars, peakVars, holdVars, modeVars>>)
  \/ (\E p \in ScrubPositions :
        StartScrubbing(p) /\ UNCHANGED <<lateVars, pureVars, drawVars, peakVars, holdVars, currentMode, modeDone>>)
  \/ (\E p \in ScrubPositions :
        ScrubMove(p) /\ UNCHANGED <<lateVars, pureVars, drawVars, peakVars, holdVars, currentMode, modeDone>>)
  \/ (StopScrubbing /\ UNCHANGED <<lateVars, pureVars, drawVars, peakVars, holdVars, currentMode, modeDone>>)

SpecDecode == InitApp /\ [][NextDecode]_vars

CoordKind(num, den) ==
  IF den # 0 THEN "finite" ELSE IF num = 0 THEN "NaN" ELSE "Infinity"

\* x = 32 + (freq - freqMinVal) / (freqMaxVal - freqMinVal) * (this.width - 64)
\* with freq = i / this.bufferLength * nyquist
XKind(i, n, nyquist, freqMinVal, freqMaxVal) ==
  CoordKind(i * nyquist - freqMinVal * n, freqMaxVal - freqMinVal)

\* y = 10 + (1 - (val - dbMinVal) / (dbMaxVal - dbMinVal)) * (this.height - 62)
YKind(val, dbMinVal, dbMaxVal) == CoordKind(val - dbMinVal, dbMaxVal - dbMinVal)

\* drawAxes (constant coordinates) and drawGrid with the frequency axis: nine
\* vertical lines at x = 32 + (f - freqMin) / freqRange * (width - 64) with
\* f - freqMin = freqRange * i / 10, four horizontal lines over
\* dbRange = Math.abs(dbMin - dbMax) || 100, which is never zero
GridKinds(freqMinVal, freqMaxVal) ==
  {"finite"} \cup
  {CoordKind((freqMaxVal - freqMinVal) * i, freqMaxVal - freqMinVal) : i \in 1..9}

\* the coordinates of the peak labels: fillText(label, x, y - 5)
LabelKinds(peaks, n, freqMinVal, freqMaxVal, dbMinVal, dbMaxVal) ==
  UNION {{CoordKind(peaks[k].freqN - freqMinVal * n, freqMaxVal - freqMinVal),
          YKind(peaks[k].db, dbMinVal, dbMaxVal)} : k \in 1..Len(peaks)}

\* the coordinates of the peak-hold line
HoldLineKinds(hold, n, nyquist, freqMinVal, freqMaxVal, dbMinVal, dbMaxVal) ==
  UNION {{XKind(i, n, nyquist, freqMinVal, freqMaxVal),
          YKind(MaxOf(hold[i], dbMinVal), dbMinVal, dbMaxVal)} :
         i \in {b \in 0..(n - 1) : InRange(b, n, nyquist, freqMinVal, freqMaxVal)}}

\* the graph after setAudioContext, with the range inputs as the user left
\* them
InitDraw ==
  /\ PeakIdle
  /\ PureIdle
  /\ LateIdle
  /\ AppIdle
  /\ PlayIdle
  /\ ModeIdle
  /\ \E r \in DisplayRanges :
       /\ freqMin = r[1]
       /\ freqMax = r[2]
       /\ dbMin = r[3]
       /\ dbMax = r[4]
  /\ bufferLength = TickBins
  /\ peakHoldArray = [i \in 0..(TickBins - 1) |-> NegInf]
  /\ dataArray = [i \in 0..(TickBins - 1) |-> 0]
  /\ latestPeaks = <<>>
  /\ scriptLatestPeaks = <<>>
  /\ togglePeakHold = TRUE
  /\ peakCount = 5
  /\ peakDelta = 1
  /\ hOp = "setAudioContext"
  /\ heldBefore = 0
  /\ tPc = "idle"
  /\ tBin = 0
  /\ tCoords = {}
  /\ tDivZero = FALSE
  /\ tStep = 0
  /\ tFirstDataDraw = 0
  /\ tLastHoldWrite = 0
  /\ tDetectAt = 0
  /\ tHoldAtStart = peakHoldArray
  /\ tDrawnHold = peakHoldArray
  /\ tLabels = <<>>
  /\ csv = <<>>

\* drawSpectrum up to the spectrum-line loop: the frame is pulled, the canvas
\* cleared, axes and grid drawn
TickBegin ==
  /\ tPc = "idle"
  /\ \E frame \in ArraysOf(bufferLength, FrameLevels) : dataArray' = frame
  /\ tCoords' = GridKinds(freqMin, freqMax)
  /\ tDivZero' = (freqMax - freqMin = 0)
  /\ tStep' = 1
  /\ tFirstDataDraw' = 0
  /\ tLastHoldWrite' = 0
  /\ tDetectAt' = 0
  /\ tHoldAtStart' = peakHoldArray
  /\ tBin' = 0
  /\ tPc' = "line"
  /\ hOp' = "tickBegin"
  /\ UNCHANGED <<peakHoldArray, bufferLength, latestPeaks, scriptLatestPeaks,
                 togglePeakHold, freqMin, freqMax, dbMin, peakCount, peakDelta, heldBefore,
                 dbMax, tDrawnHold, tLabels, csv>>

\* one pass of the spectrum-line loop: a bin outside the range is skipped;
\* for the others the point is added to the path and the peak-hold bin
\* updated
LineStep ==
  /\ tPc = "line"
  /\ tStep' = tStep + 1
  /\ IF tBin < bufferLength
     THEN /\ tBin' = tBin + 1
          /\ tPc' = "line"
          /\ IF InRange(tBin, bufferLength, HoldNyquist, freqMin, freqMax)
             THEN /\ tCoords' = tCoords \cup
                      {XKind(tBin, bufferLength, HoldNyquist, freqMin, freqMax),
                       YKind(MaxOf(dataArray[tBin], dbMin), dbMin, dbMax)}
                  /\ tDivZero' = (tDivZero \/ freqMax - freqMin = 0 \/ dbMax - dbMin = 0)
                  /\ tFirstDataDraw' = IF tFirstDataDraw = 0 THEN tStep' ELSE tFirstDataDraw
                  /\ peakHoldArray' =
                       [peakHoldArray EXCEPT ![tBin] =
                          HoldUpdate(peakHoldArray, tBin, MaxOf(dataArray[tBin], dbMin),
                                     togglePeakHold)]
                  /\ tLastHoldWrite' = tStep'
             ELSE UNCHANGED <<tCoords, tDivZero, tFirstDataDraw, peakHoldArray,
                              tLastHoldWrite>>
     ELSE /\ tPc' = "holdLine"
          /\ UNCHANGED <<tBin, tCoords, tDivZero, tFirstDataDraw, peakHoldArray,
                         tLastHoldWrite>>
  /\ hOp' = "line"
  /\ UNCHANGED <<dataArray, bufferLength, latestPeaks, scriptLatestPeaks, togglePeakHold,
                 freqMin, freqMax, dbMin, peakCount, peakDelta, heldBefore, dbMax,
                 tDetectAt, tHoldAtStart, tDrawnHold, tLabels, csv>>

HoldLineStepStale ==
  /\ tPc = "holdLine"
  /\ tStep' = tStep + 1
  /\ tCoords' = tCoords \cup HoldLineKinds(peakHoldArray, bufferLength, HoldNyquist,
                                           freqMin, freqMax, dbMin, dbMax)
  /\ tDivZero' = (tDivZero \/
                  (/\ \E b \in 0..(bufferLength - 1) :
                        InRange(b, bufferLength, HoldNyquist, freqMin, freqMax)
                   /\ (freqMax - freqMin = 0 \/ dbMax - dbMin = 0)))
  /\ tFirstDataDraw' =
       IF /\ tFirstDataDraw = 0
          /\ \E b \in 0..(bufferLength - 1) :
                InRange(b, bufferLength, HoldNyquist, freqMin, freqMax)
       THEN tStep' ELSE tFirstDataDraw
  /\ tDrawnHold' = tHoldAtStart
  /\ tPc' = "detect"
  /\ hOp' = "holdLine"
  /\ UNCHANGED <<peakHoldArray, dataArray, bufferLength, latestPeaks, scriptLatestPeaks,
                 togglePeakHold, freqMin, freqMax, dbMin, peakCount, peakDelta, heldBefore,
                 dbMax, tBin, tLastHoldWrite, tDetectAt, tHoldAtStart, tLabels, csv>>

\* the peak-hold line loop and its stroke
HoldLineStep ==
  /\ tPc = "holdLine"
  /\ tStep' = tStep + 1
  /\ tCoords' = tCoords \cup HoldLineKinds(peakHoldArray, bufferLength, HoldNyquist,
                                           freqMin, freqMax, dbMin, dbMax)
  /\ tDivZero' = (tDivZero \/
                  (/\ \E b \in 0..(bufferLength - 1) :
                        InRange(b, bufferLength, HoldNyquist, freqMin, freqMax)
                   /\ (freqMax - freqMin = 0 \/ dbMax - dbMin = 0)))
  /\ tFirstDataDraw' =
       IF /\ tFirstDataDraw = 0
          /\ \E b \in 0..(bufferLength - 1) :
                InRange(b, bufferLength, HoldNyquist, freqMin, freqMax)
       THEN tStep' ELSE tFirstDataDraw
  /\ tDrawnHold' = peakHoldArray
  /\ tPc' = "detect"
  /\ hOp' = "holdLine"
  /\ UNCHANGED <<peakHoldArray, dataArray, bufferLength, latestPeaks, scriptLatestPeaks,
                 togglePeakHold, freqMin, freqMax, dbMin, peakCount, peakDelta, heldBefore,
                 dbMax, tBin, tLastHoldWrite, tDetectAt, tHoldAtStart, tLabels, csv>>

DetectStepOnFrame ==
  /\ tPc = "detect"
  /\ tStep' = tStep + 1
  /\ latestPeaks' = getPeaksFromArray(dataArray, HoldNyquist, freqMin, freqMax,
                                      peakCount, peakDelta)
  /\ heldBefore' = Len(latestPeaks)
  /\ tDetectAt' = tStep'
  /\ tPc' = "labels"
  /\ hOp' = "detect"
  /\ UNCHANGED <<peakHoldArray, dataArray, bufferLength, scriptLatestPeaks, togglePeakHold,
                 freqMin, freqMax, dbMin, peakCount, peakDelta, dbMax, tBin, tCoords,
                 tDivZero, tFirstDataDraw, tLastHoldWrite, tHoldAtStart, tDrawnHold,
                 tLabels, csv>>

\* this.latestPeaks = this.getPeaksFromArray(this.peakHoldArray, ...)
DetectStep ==
  /\ tPc = "detect"
  /\ tStep' = tStep + 1
  /\ latestPeaks' = getPeaksFromArray(peakHoldArray, HoldNyquist, freqMin, freqMax,
                                      peakCount, peakDelta)
  /\ heldBefore' = Len(latestPeaks)
  /\ tDetectAt' = tStep'
  /\ tPc' = "labels"
  /\ hOp' = "detect"
  /\ UNCHANGED <<peakHoldArray, dataArray, bufferLength, scriptLatestPeaks, togglePeakHold,
                 freqMin, freqMax, dbMin, peakCount, peakDelta, dbMax, tBin, tCoords,
                 tDivZero, tFirstDataDraw, tLastHoldWrite, tHoldAtStart, tDrawnHold,
                 tLabels, csv>>

\* this.latestPeaks.forEach(p => ... fillText(label, x, y - 5)), then the
\* axis labels (constant coordinates)
LabelStep ==
  /\ tPc = "labels"
  /\ tStep' = tStep + 1
  /\ tLabels' = latestPeaks
  /\ tCoords' = tCoords \cup LabelKinds(latestPeaks, bufferLength, freqMin, freqMax,
                                        dbMin, dbMax)
  /\ tDivZero' = (tDivZero \/
                  (latestPeaks # <<>> /\ (freqMax - freqMin = 0 \/ dbMax - dbMin = 0)))
  /\ tPc' = "idle"
  /\ hOp' = "tick"
  /\ UNCHANGED <<peakHoldArray, dataArray, bufferLength, latestPeaks, scriptLatestPeaks,
                 togglePeakHold, freqMin, freqMax, dbMin, peakCount, peakDelta, heldBefore,
                 dbMax, tBin, tFirstDataDraw, tLastHoldWrite, tDetectAt, tHoldAtStart,
                 tDrawnHold, csv>>

\* drawStatic: the canvas is cleared, axes, grid and axis labels drawn
DrawStatic ==
  /\ tPc = "idle"
  /\ tCoords' = GridKinds(freqMin, freqMax)
  /\ tDivZero' = (freqMax - freqMin = 0)
  /\ hOp' = "static"
  /\ UNCHANGED <<peakHoldArray, dataArray, bufferLength, latestPeaks, scriptLatestPeaks,
                 togglePeakHold, freqMin, freqMax, dbMin, peakCount, peakDelta, heldBefore,
                 dbMax, tPc, tBin, tStep, tFirstDataDraw, tLastHoldWrite, tDetectAt,
                 tHoldAtStart, tDrawnHold, tLabels, csv>>

\* the peak-hold checkbox is flipped between two ticks
TogglePeakHoldIdle ==
  /\ tPc = "idle"
  /\ TogglePeakHold
  /\ UNCHANGED drawVars

NextDraw ==
  \/ (TickBegin /\ UNCHANGED <<peakVars, appVars, playVars, modeVars, pureVars, lateVars>>)
  \/ (LineStep /\ UNCHANGED <<peakVars, appVars, playVars, modeVars, pureVars, lateVars>>)
  \/ (HoldLineStep /\ UNCHANGED <<peakVars, appVars, playVars, modeVars, pureVars, lateVars>>)
  \/ (DetectStep /\ UNCHANGED <<peakVars, appVars, playVars, modeVars, pureVars, lateVars>>)
  \/ (LabelStep /\ UNCHANGED <<peakVars, appVars, playVars, modeVars, pureVars, lateVars>>)
  \/ (DrawStatic /\ UNCHANGED <<peakVars, appVars, playVars, modeVars, pureVars, lateVars>>)
  \/ (TogglePeakHoldIdle /\ UNCHANGED <<peakVars, appVars, playVars, modeVars, pureVars, lateVars>>)

SpecDraw == InitDraw /\ [][NextDraw]_vars

\* C22: with an invalid display range (freqMin >= freqMax or dbMin >= dbMax)
\* a render tick and a static redraw degrade to no peaks and an empty plot:
\* no division by a zero range is performed and no NaN or infinite
\* coordinate is passed to a draw call
InvalidRangeDegrades ==
  ((freqMin >= freqMax \/ dbMin >= dbMax) /\ hOp \in {"tick", "static"}) =>
    /\ ~tDivZero
    /\ tCoords \subseteq {"finite"}
    /\ hOp = "tick" => (latestPeaks = <<>> /\ tFirstDataDraw = 0)

\* ---------------------------------------------- specification SpecWav
\* one call of createWAVFile on samples and a sample rate drawn from the
\* bounded sets; a sample is the numerator of a fraction over SampleDen, so
\* that 12 stands for 1.5 and -5 for -0.625
SampleDen == 8
SampleNums == {-12, -8, -5, -1, 0, 1, 3, 8, 12}
SampleRates == {8000, 44100, 48000}
MaxSamples == 2

\* DataView.setUint32(offset, v, false)
Uint32BE(v) == <<(v \div 16777216) % 256, (v \div 65536) % 256, (v \div 256) % 256, v % 256>>

\* DataView.setUint32(offset, v, true)
Uint32LE(v) == <<v % 256, (v \div 256) % 256, (v \div 65536) % 256, (v \div 16777216) % 256>>

\* DataView.setUint16(offset, v, true)
Uint16LE(v) == <<v % 256, (v \div 256) % 256>>

\* DataView.setInt16(offset, v, true): the value modulo 2^16, low byte first
Int16LE(v) == Uint16LE(v % 65536)

\* Math.max(-1, Math.min(1, audioData[i]))
ClampSample(n) == IF n < -SampleDen THEN -SampleDen ELSE IF n > SampleDen THEN SampleDen ELSE n

pcmSampleOneScale(sample) == (sample * 32768) \div SampleDen

\* sample < 0 ? Math.floor(sample * 0x8000) : Math.floor(sample * 0x7FFF)
pcmSample(sample) ==
  IF sample < 0 THEN (sample * 32768) \div SampleDen ELSE (sample * 32767) \div SampleDen

createWAVFile(data, rate, numChannels) ==
  LET length == Len(data)
      bytesPerSample == 2
      dataSize == length * numChannels * bytesPerSample
      header ==
        Uint32BE(1380533830) \o Uint32LE(36 + dataSize) \o Uint32BE(1463899717)
        \o Uint32BE(1718449184) \o Uint32LE(16) \o Uint16LE(1) \o Uint16LE(numChannels)
        \o Uint32LE(rate) \o Uint32LE(rate * numChannels * bytesPerSample)
        \o Uint16LE(numChannels * bytesPerSample) \o Uint16LE(16)
        \o Uint32BE(1684108385) \o Uint32LE(dataSize)
      body ==
        [k \in 1..dataSize |->
          IF k <= 2 * length
          THEN Int16LE(pcmSample(ClampSample(data[(k + 1) \div 2])))[((k - 1) % 2) + 1]
          ELSE 0]
  IN header \o body

InitWav ==
  /\ PeakIdle
  /\ HoldIdle
  /\ AppIdle
  /\ PlayIdle
  /\ ModeIdle
  /\ DrawIdle
  /\ LateIdle
  /\ NoteIdle
  /\ MapIdle
  /\ audioData \in UNION {[1..n -> SampleNums] : n \in 0..MaxSamples}
  /\ sampleRate \in SampleRates
  /\ arrayBuffer = <<>>

CallCreateWAVFile ==
  /\ arrayBuffer = <<>>
  /\ arrayBuffer' = createWAVFile(audioData, sampleRate, 1)
  /\ UNCHANGED <<audioData, sampleRate, noteFreq, noteLabel, mapIn, mapOut>>
  /\ UNCHANGED <<peakVars, holdVars, appVars, playVars, modeVars, drawVars, lateVars>>

NextWav == CallCreateWAVFile

SpecWav == InitWav /\ [][NextWav]_vars

\* a reader of the file: little-endian fields at a byte offset
ReadUint32LE(buf, off) ==
  buf[off + 1] + 256 * buf[off + 2] + 65536 * buf[off + 3] + 16777216 * buf[off + 4]

ReadUint16LE(buf, off) == buf[off + 1] + 256 * buf[off + 2]

ReadInt16LE(buf, off) ==
  LET u == ReadUint16LE(buf, off) IN IF u >= 32768 THEN u - 65536 ELSE u

\* C23: the file createWAVFile makes of N mono samples at rate R has 44 + 2*N
\* bytes; its header reads back as RIFF/WAVE/fmt /data, PCM, 1 channel, rate
\* R, byte rate 2*R, block align 2, 16 bits, RIFF size 36 + 2*N and data size
\* 2*N; and every 16-bit little-endian sample lies in -32768..32767, within
\* one quantization step of the original clamped to [-1, 1] and scaled by
\* 0x8000 (negative) or 0x7FFF (non-negative)
WavRoundTrip ==
  arrayBuffer # <<>> =>
    LET N == Len(audioData) IN
    /\ Len(arrayBuffer) = 44 + 2 * N
    /\ SubSeq(arrayBuffer, 1, 4) = <<82, 73, 70, 70>>
    /\ ReadUint32LE(arrayBuffer, 4) = 36 + 2 * N
    /\ SubSeq(arrayBuffer, 9, 16) = <<87, 65, 86, 69, 102, 109, 116, 32>>
    /\ ReadUint32LE(arrayBuffer, 16) = 16
    /\ ReadUint16LE(arrayBuffer, 20) = 1
    /\ ReadUint16LE(arrayBuffer, 22) = 1
    /\ ReadUint32LE(arrayBuffer, 24) = sampleRate
    /\ ReadUint32LE(arrayBuffer, 28) = 2 * sampleRate
    /\ ReadUint16LE(arrayBuffer, 32) = 2
    /\ ReadUint16LE(arrayBuffer, 34) = 16
    /\ SubSeq(arrayBuffer, 37, 40) = <<100, 97, 116, 97>>
    /\ ReadUint32LE(arrayBuffer, 40) = 2 * N
    /\ \A i \in 1..N :
         LET pcm == ReadInt16LE(arrayBuffer, 44 + 2 * (i - 1))
             c == ClampSample(audioData[i])
             scale == IF c < 0 THEN 32768 ELSE 32767
         IN /\ pcm \in -32768..32767
            /\ c * scale - pcm * SampleDen >= 0
            /\ c * scale - pcm * SampleDen < SampleDen

\* a file of two samples, one of them outside [-1, 1] and one negative
WavRoundTripWitness ==
  /\ Len(audioData) = 2
  /\ audioData[1] = 12
  /\ audioData[2] = -5
  /\ sampleRate = 44100
  /\ Len(arrayBuffer) = 48
  /\ ReadInt16LE(arrayBuffer, 44) = 32767
  /\ ReadInt16LE(arrayBuffer, 46) = -20480

\* ---------------------------------------------- specification SpecCsv
\* the render tick and the inputs of SpecHold, and the Save CSV button

\* p.freq.toFixed(2) + "," + p.db.toFixed(2): both numbers in hundredths,
\* the frequency freqN / len rounded to the nearest hundredth
CsvLine(p, len) ==
  [freq_hz |-> (p.freqN * 200 + len) \div (2 * len), db |-> p.db * 100]

\* let csv = "freq_hz,db\n"; latestPeaks.forEach(p => { csv += ... })
CsvOf(peaks, len) ==
  <<"freq_hz,db">> \o [k \in 1..Len(peaks) |-> CsvLine(peaks[k], len)]

\* saveCsvBtn.onclick: reads latestPeaks of js/script.js
SaveCsv ==
  /\ csv' = CsvOf(scriptLatestPeaks, bufferLength)
  /\ heldBefore' = Len(latestPeaks)
  /\ hOp' = "saveCsv"
  /\ UNCHANGED <<peakHoldArray, dataArray, bufferLength, latestPeaks, scriptLatestPeaks,
                 togglePeakHold, freqMin, freqMax, dbMin, peakCount, peakDelta>>
  /\ UNCHANGED tickVars

NextCsv ==
  \/ (SetAudioContext /\ UNCHANGED <<lateVars, pureVars, drawVars, peakVars, appVars, playVars, modeVars>>)
  \/ (RenderTick /\ UNCHANGED <<lateVars, pureVars, drawVars, peakVars, appVars, playVars, modeVars>>)
  \/ (CanvasClick /\ UNCHANGED <<lateVars, pureVars, drawVars, peakVars, appVars, playVars, modeVars>>)
  \/ (TogglePeakHold /\ UNCHANGED <<lateVars, pureVars, drawVars, peakVars, appVars, playVars, modeVars>>)
  \/ (ChangeSettings /\ UNCHANGED <<lateVars, pureVars, drawVars, peakVars, appVars, playVars, modeVars>>)
  \/ (SaveCsv /\ UNCHANGED <<pureVars, peakVars, appVars, playVars, modeVars, lateVars>>)

SpecCsv == InitHold /\ [][NextCsv]_vars

\* C24: the exported file is the header line freq_hz,db followed by one line
\* for each peak of the list the render loop last detected and labelled
CsvHoldsDetectedPeaks ==
  hOp = "saveCsv" => csv = CsvOf(latestPeaks, bufferLength)

\* ---------------------------------------------- specification SpecNote
\* one call of SpectrumGraph.frequencyToNote on an argument drawn from a
\* bounded set: frequencies in hundredths of a hertz, zero, a negative
\* frequency, NaN and the two infinities

\* Math.round(12 * Math.log2(freq / A4)) with A4 = 440, tabulated for the
\* frequencies of the bounded set: <<hundredths of a hertz, semitones>>
NoteTable == {
  <<100, -105>>, <<1635, -57>>, <<2750, -48>>, <<11000, -24>>, <<11654, -23>>, <<12347, -22>>,
  <<13081, -21>>, <<13859, -20>>, <<14683, -19>>, <<15556, -18>>, <<16481, -17>>, <<17461, -16>>,
  <<18500, -15>>, <<19600, -14>>, <<20765, -13>>, <<22000, -12>>, <<23308, -11>>, <<24694, -10>>,
  <<25400, -10>>, <<25500, -9>>, <<26163, -9>>, <<27718, -8>>, <<29366, -7>>, <<31113, -6>>,
  <<32963, -5>>, <<34923, -4>>, <<36999, -3>>, <<39200, -2>>, <<41530, -1>>, <<44000, 0>>,
  <<45300, 1>>, <<46616, 1>>, <<49388, 2>>, <<52325, 3>>, <<88000, 12>>, <<418601, 39>>,
  <<2000000, 66>>}

NoteCentis == {e[1] : e \in NoteTable}

semitonesFromA4(centi) == (CHOOSE e \in NoteTable : e[1] = centi)[2]

NoteInputs ==
  {[kind |-> "finite", centi |-> c] : c \in NoteCentis \cup {0, -44000}}
  \cup {[kind |-> k, centi |-> 0] : k \in {"NaN", "Infinity", "-Infinity"}}

noteNames == <<"C", "C#", "D", "D#", "E", "F", "F#", "G", "G#", "A", "A#", "B">>

\* the remainder operator % of JavaScript: the sign of the dividend
JsRem(a, b) == IF a >= 0 THEN a % b ELSE -((-a) % b)

\* return 'N/A'
NotApplicable == [name |-> "N/A", octave |-> 0]

frequencyToNoteUnguarded(freq) ==
  IF freq.kind = "finite" /\ freq.centi > 0
  THEN LET s == semitonesFromA4(freq.centi)
           noteIndex == JsRem(s + 9, 12)
       IN [name |-> IF noteIndex \in 0..11 THEN noteNames[noteIndex + 1] ELSE "undefined",
           octave |-> ((s + 9) \div 12) + 4]
  ELSE IF freq.kind = "finite" /\ freq.centi = 0
       THEN [name |-> "undefined-Infinity", octave |-> 0]
  ELSE IF freq.kind = "Infinity"
       THEN [name |-> "undefinedInfinity", octave |-> 0]
  ELSE [name |-> "undefinedNaN", octave |-> 0]

\* SpectrumGraph.frequencyToNote
frequencyToNote(freq) ==
  IF freq.kind # "finite" \/ freq.centi <= 0
  THEN NotApplicable
  ELSE LET s == semitonesFromA4(freq.centi)
           noteIndex == JsRem(s + 9, 12)
           octave == ((s + 9) \div 12) + 4
       IN IF noteIndex < 0 \/ noteIndex >= Len(noteNames)
          THEN NotApplicable
          ELSE [name |-> noteNames[noteIndex + 1], octave |-> octave]

InitNote ==
  /\ PeakIdle
  /\ HoldIdle
  /\ AppIdle
  /\ PlayIdle
  /\ ModeIdle
  /\ DrawIdle
  /\ LateIdle
  /\ WavIdle
  /\ MapIdle
  /\ noteFreq \in NoteInputs
  /\ noteLabel = NoLabel

CallFrequencyToNote ==
  /\ noteLabel = NoLabel
  /\ noteLabel' = frequencyToNote(noteFreq)
  /\ UNCHANGED <<audioData, sampleRate, arrayBuffer, noteFreq, mapIn, mapOut>>
  /\ UNCHANGED <<peakVars, holdVars, appVars, playVars, modeVars, drawVars, lateVars>>

NextNote == CallFrequencyToNote

SpecNote == InitNote /\ [][NextNote]_vars

\* C25: for a positive finite frequency with s semitones from A4 the label
\* is the note name at index (s + 9) mod 12, an index in 0..11 for notes
\* below C4 too, followed by the octave floor((s + 9) / 12) + 4
NoteNameOfSemitones ==
  (noteLabel # NoLabel /\ noteFreq.kind = "finite" /\ noteFreq.centi > 0) =>
    LET s == semitonesFromA4(noteFreq.centi)
    IN noteLabel = [name |-> noteNames[((s + 9) % 12) + 1], octave |-> ((s + 9) \div 12) + 4]

MapRanges == {<<0, 1000, -100, 0>>, <<250, 750, -55, 0>>}
MapSizes == {<<65, 63>>, <<300, 150>>, <<400, 262>>}
MapFreqs == {0, 250, 333, 500, 750, 1000}
MapDbs == {-100, -55, -33, -7, 0}

Frac(n) == <<n, 1>>
FAdd(a, b) == <<a[1] * b[2] + b[1] * a[2], a[2] * b[2]>>
FSub(a, b) == <<a[1] * b[2] - b[1] * a[2], a[2] * b[2]>>
FMul(a, b) == <<a[1] * b[1], a[2] * b[2]>>
FDiv(a, b) == IF b[1] > 0 THEN <<a[1] * b[2], a[2] * b[1]>> ELSE <<-(a[1] * b[2]), -(a[2] * b[1])>>
FEq(a, b) == a[1] * b[2] = b[1] * a[2]

\* drawSpectrum: x = 32 + (freq - freqMinVal) / (freqMaxVal - freqMinVal) * (this.width - 64)
freqToX(freq, freqMinVal, freqMaxVal, width) ==
  FAdd(Frac(32), FMul(FDiv(FSub(freq, Frac(freqMinVal)), Frac(freqMaxVal - freqMinVal)),
                      Frac(width - 64)))

\* drawSpectrum: y = 10 + (1 - (val - dbMinVal) / (dbMaxVal - dbMinVal)) * (this.height - 62)
dbToY(val, dbMinVal, dbMaxVal, height) ==
  FAdd(Frac(10), FMul(FSub(Frac(1), FDiv(FSub(val, Frac(dbMinVal)), Frac(dbMaxVal - dbMinVal))),
                      Frac(height - 62)))

\* handleMouseMove: freq = (mx - 32) / (this.width - 64) * (freqMaxVal - freqMinVal) + freqMinVal
xToFreq(mx, freqMinVal, freqMaxVal, width) ==
  FAdd(FMul(FDiv(FSub(mx, Frac(32)), Frac(width - 64)), Frac(freqMaxVal - freqMinVal)),
       Frac(freqMinVal))

yToDbFullHeight(my, dbMinVal, dbMaxVal, height) ==
  FSub(Frac(dbMaxVal), FMul(FDiv(FSub(my, Frac(10)), Frac(height - 52)),
                            Frac(dbMaxVal - dbMinVal)))

\* handleMouseMove: db = dbMaxVal - ((my - 10) / (this.height - 62)) * (dbMaxVal - dbMinVal)
yToDb(my, dbMinVal, dbMaxVal, height) ==
  FSub(Frac(dbMaxVal), FMul(FDiv(FSub(my, Frac(10)), Frac(height - 62)),
                            Frac(dbMaxVal - dbMinVal)))

InitMap ==
  /\ PeakIdle
  /\ HoldIdle
  /\ AppIdle
  /\ PlayIdle
  /\ ModeIdle
  /\ DrawIdle
  /\ LateIdle
  /\ WavIdle
  /\ NoteIdle
  /\ \E r \in MapRanges, sz \in MapSizes, f \in MapFreqs, d \in MapDbs :
       /\ r[1] <= f /\ f <= r[2]
       /\ r[3] <= d /\ d <= r[4]
       /\ mapIn = [freqMin |-> r[1], freqMax |-> r[2], dbMin |-> r[3], dbMax |-> r[4],
                   width |-> sz[1], height |-> sz[2], freq |-> f, db |-> d]
  /\ mapOut = NoMapOut

\* drawSpectrum plots the point
PlotPoint ==
  /\ mapOut.stage = "none"
  /\ mapOut' = [mapOut EXCEPT
       !.stage = "plotted",
       !.x = freqToX(Frac(mapIn.freq), mapIn.freqMin, mapIn.freqMax, mapIn.width),
       !.y = dbToY(Frac(mapIn.db), mapIn.dbMin, mapIn.dbMax, mapIn.height)]
  /\ UNCHANGED <<audioData, sampleRate, arrayBuffer, noteFreq, noteLabel, mapIn>>
  /\ UNCHANGED <<peakVars, holdVars, appVars, playVars, modeVars, drawVars, lateVars>>

\* handleMouseMove with the pointer on the plotted pixel
PointerOnPoint ==
  /\ mapOut.stage = "plotted"
  /\ mapOut' = [mapOut EXCEPT
       !.stage = "read",
       !.freq = xToFreq(mapOut.x, mapIn.freqMin, mapIn.freqMax, mapIn.width),
       !.db = yToDb(mapOut.y, mapIn.dbMin, mapIn.dbMax, mapIn.height)]
  /\ UNCHANGED <<audioData, sampleRate, arrayBuffer, noteFreq, noteLabel, mapIn>>
  /\ UNCHANGED <<peakVars, holdVars, appVars, playVars, modeVars, drawVars, lateVars>>

NextMap ==
  \/ PlotPoint
  \/ PointerOnPoint

SpecMap == InitMap /\ [][NextMap]_vars

\* C27: with freqMin < freqMax, dbMin < dbMax and a plot wider than 64 and
\* higher than 62 pixels, a frequency of the range plotted at x is read back
\* from x as the same frequency, and a level of the range plotted at y is
\* read back from y as the same level
CoordinateRoundTrip ==
  mapOut.stage = "read" =>
    /\ FEq(mapOut.freq, Frac(mapIn.freq))
    /\ FEq(mapOut.db, Frac(mapIn.db))
    /\ mapOut.x[2] > 0 /\ mapOut.x[1] >= 32 * mapOut.x[2]
    /\ mapOut.x[1] <= (mapIn.width - 32) * mapOut.x[2]
    /\ mapOut.y[2] > 0 /\ mapOut.y[1] >= 10 * mapOut.y[2]
    /\ mapOut.y[1] <= (mapIn.height - 52) * mapOut.y[2]

\* 333 Hz at -33 dB on a 400 by 262 canvas showing 250..750 Hz, -55..0 dB
CoordinateRoundTripWitness ==
  /\ mapOut.stage = "read"
  /\ mapIn.freq = 333 /\ mapIn.db = -33
  /\ mapIn.freqMin = 250 /\ mapIn.width = 400
  /\ ~FEq(mapOut.x, Frac(32))
  /\ FEq(mapOut.freq, Frac(333))
  /\ FEq(mapOut.db, Frac(-33))

\* C28: a render tick with peak-hold enabled leaves in every bin of the
\* peak-hold array, inside the visible frequency range or not and whatever
\* dbMin is, the larger of the value held before and the frame's value
HoldIsMaxOfFrame ==
  [][(hOp' = "tick" /\ togglePeakHold) =>
       \A i \in DOMAIN dataArray' :
         peakHoldArray'[i] = MaxOf(peakHoldArray[i], dataArray'[i])]_vars

PeaksFromHeldArray ==
  hOp = "tick" =>
    /\ latestPeaks = getPeaksFromArray(peakHoldArray, HoldNyquist, freqMin, freqMax,
                                       peakCount, peakDelta)
    /\ tLabels = latestPeaks
    /\ peakHoldArray = UpdatePeakHold(tHoldAtStart, dataArray, bufferLength, HoldNyquist,
                                      freqMin, freqMax, dbMin, togglePeakHold)
    /\ ~togglePeakHold =>
         tLabels = getPeaksFromArray(tHoldAtStart, HoldNyquist, freqMin, freqMax,
                                     peakCount, peakDelta)

\* a tick with peak-hold disabled labelled a held peak the frame does not have
PeaksFromHeldArrayWitness ==
  /\ hOp = "tick"
  /\ ~togglePeakHold
  /\ tLabels # <<>>
  /\ tLabels # getPeaksFromArray(dataArray, HoldNyquist, freqMin, freqMax, peakCount,
                                 peakDelta)

\* ---------------------------------------------- specification SpecIndicator
\* the handlers of src/script.js that assign the flags the mode is derived
\* from, each with the calls of updateModeIndicator it makes; a state is the
\* state after a handler or callback has finished

\* the variables the handlers below leave alone
indicatorRest == <<isScrubbing, analyser, isLiveMode, loopsLive, loopsPlay, isPaused,
                   playbackSource, orphans, endedQueue, playBtnShown, lastRead,
                   graphComplete, clockVars, scrubVars, gestureOnly, recordedBlob>>

\* startBtn.onclick, live not running: startLiveVisualization
IndicatorStartLive ==
  /\ ~running
  /\ running' = TRUE
  /\ currentMode' = DeriveMode(recording, isPlaying, audioBuffer /\ playbackBar, running')
  /\ modeDone' = TRUE
  /\ pOp' = "startLive"
  /\ UNCHANGED <<recording, recorderState, audioBuffer, playbackBar, isPlaying,
                 controlsDisabled, indicatorRest>>

\* startBtn.onclick, live running
IndicatorStopLive ==
  /\ running
  /\ running' = FALSE
  /\ currentMode' = DeriveMode(recording, isPlaying, audioBuffer /\ playbackBar, running')
  /\ modeDone' = TRUE
  /\ pOp' = "stopLive"
  /\ UNCHANGED <<recording, recorderState, audioBuffer, playbackBar, isPlaying,
                 controlsDisabled, indicatorRest>>

\* audioFileInput.onchange with a file that decodes: the buffer is stored,
\* the playback bar shown and a running live source disconnected; the
\* handler does not call updateModeIndicator. audioCtx.decodeAudioData needs
\* the context that Start Live or an earlier decode created
IndicatorLoadFile ==
  /\ running \/ isPlaying \/ audioBuffer
  /\ audioBuffer' = TRUE
  /\ playbackBar' = TRUE
  /\ running' = FALSE
  /\ modeDone' = FALSE
  /\ pOp' = "loadFile"
  /\ UNCHANGED <<currentMode, recording, recorderState, isPlaying, controlsDisabled,
                 indicatorRest>>

\* clearBtn.onclick
IndicatorClear ==
  /\ audioBuffer' = FALSE
  /\ isPlaying' = FALSE
  /\ playbackBar' = FALSE
  /\ currentMode' = DeriveMode(recording, isPlaying', audioBuffer' /\ playbackBar', running)
  /\ modeDone' = TRUE
  /\ pOp' = "clear"
  /\ UNCHANGED <<running, recording, recorderState, controlsDisabled, indicatorRest>>

\* playBtn.onclick and playAudioBuffer
IndicatorPlay ==
  /\ audioBuffer
  /\ ~isPlaying
  /\ isPlaying' = TRUE
  /\ currentMode' = DeriveMode(recording, isPlaying', audioBuffer /\ playbackBar, running)
  /\ modeDone' = TRUE
  /\ pOp' = "play"
  /\ UNCHANGED <<running, recording, recorderState, audioBuffer, playbackBar,
                 controlsDisabled, indicatorRest>>

\* playbackSource.onended
IndicatorEnded ==
  /\ isPlaying
  /\ isPlaying' = FALSE
  /\ currentMode' = DeriveMode(recording, isPlaying', audioBuffer /\ playbackBar, running)
  /\ modeDone' = TRUE
  /\ pOp' = "ended"
  /\ UNCHANGED <<running, recording, recorderState, audioBuffer, playbackBar,
                 controlsDisabled, indicatorRest>>

\* pauseBtn.onclick with the context running
IndicatorPause ==
  /\ isPlaying
  /\ isPlaying' = FALSE
  /\ running' = FALSE
  /\ currentMode' = DeriveMode(recording, isPlaying', audioBuffer /\ playbackBar, running')
  /\ modeDone' = TRUE
  /\ pOp' = "pause"
  /\ UNCHANGED <<recording, recorderState, audioBuffer, playbackBar, controlsDisabled,
                 indicatorRest>>

\* recordBtn.onclick, not recording: the flag is set first, live is started
\* if it is not running, then startWAVRecording
IndicatorRecordStart ==
  /\ ~recording
  /\ recorderState # "stopping"
  /\ recording' = TRUE
  /\ running' = TRUE
  /\ recorderState' = "recording"
  /\ controlsDisabled' = TRUE
  /\ currentMode' = DeriveMode(recording', isPlaying, audioBuffer /\ playbackBar, running')
  /\ modeDone' = TRUE
  /\ pOp' = "recordStart"
  /\ UNCHANGED <<audioBuffer, playbackBar, isPlaying, indicatorRest>>

\* recordBtn.onclick, recording: stopWAVRecordingGracefully, the flag and
\* the controls are reset
IndicatorRecordStop ==
  /\ recording
  /\ recording' = FALSE
  /\ recorderState' = "stopping"
  /\ controlsDisabled' = FALSE
  /\ currentMode' = DeriveMode(recording', isPlaying, audioBuffer /\ playbackBar, running)
  /\ modeDone' = TRUE
  /\ pOp' = "recordStop"
  /\ UNCHANGED <<running, audioBuffer, playbackBar, isPlaying, indicatorRest>>

\* mediaRecorder.onstop and createPlaybackBufferFromBlob: the recording is
\* decoded, shown in the playback bar and live stopped; a failed decode
\* leaves everything as it is
IndicatorRecordingDecoded ==
  /\ recorderState = "stopping"
  /\ recorderState' = "inactive"
  /\ \E decoded \in BOOLEAN :
       IF decoded
       THEN /\ audioBuffer' = TRUE
            /\ playbackBar' = TRUE
            /\ running' = FALSE
            /\ currentMode' = DeriveMode(recording, isPlaying, TRUE, FALSE)
            /\ modeDone' = TRUE
       ELSE UNCHANGED <<audioBuffer, playbackBar, running, currentMode, modeDone>>
  /\ pOp' = "recordingDecoded"
  /\ UNCHANGED <<recording, isPlaying, controlsDisabled, indicatorRest>>

NextIndicator ==
  \/ (IndicatorStartLive /\ UNCHANGED <<lateVars, pureVars, drawVars, peakVars, holdVars>>)
  \/ (IndicatorStopLive /\ UNCHANGED <<lateVars, pureVars, drawVars, peakVars, holdVars>>)
  \/ (IndicatorLoadFile /\ UNCHANGED <<lateVars, pureVars, drawVars, peakVars, holdVars>>)
  \/ (IndicatorClear /\ UNCHANGED <<lateVars, pureVars, drawVars, peakVars, holdVars>>)
  \/ (IndicatorPlay /\ UNCHANGED <<lateVars, pureVars, drawVars, peakVars, holdVars>>)
  \/ (IndicatorEnded /\ UNCHANGED <<lateVars, pureVars, drawVars, peakVars, holdVars>>)
  \/ (IndicatorPause /\ UNCHANGED <<lateVars, pureVars, drawVars, peakVars, holdVars>>)
  \/ (IndicatorRecordStart /\ UNCHANGED <<lateVars, pureVars, drawVars, peakVars, holdVars>>)
  \/ (IndicatorRecordStop /\ UNCHANGED <<lateVars, pureVars, drawVars, peakVars, holdVars>>)
  \/ (IndicatorRecordingDecoded /\ UNCHANGED <<lateVars, pureVars, drawVars, peakVars, holdVars>>)

SpecIndicator == InitApp /\ [][NextIndicator]_vars

\* C31: after every handler or callback the stored and displayed mode is the
\* mode derived from the flags as they are now
StoredModeIsDerived ==
  currentMode = DeriveMode(recording, isPlaying, audioBuffer /\ playbackBar, running)

\* C32: a recording is started only once live is running, and the
\* recording-in-progress flag is never set in a state in which live is not
\* running
RecordingOnlyWhileLive ==
  recording => running

\* C33: in every state reached when a record handler has finished, the
\* FFT-size and device controls are disabled if and only if a recording is in
\* progress
ControlsDisabledIffRecording ==
  pOp \in {"recordStart", "recordStartFailed", "recorderFailed", "recordStop",
           "recordStopUndecoded", "recordStopEmpty"}
    => (controlsDisabled <=> recording)

\* C34: once a file has been loaded or the data cleared, playback is not
\* flagged as playing, no buffer source of the previous buffer is playing,
\* the stored offset is 0 and the derived mode is PlaybackReady after a load
\* and Idle or Live after a clear (no recording being in progress)
LoadOrClearEndsPlayback ==
  pOp \in {"loadFile", "clearFile"} =>
    /\ ~isPlaying
    /\ playbackSource # "playing"
    /\ orphans = 0
    /\ currentBufferPosition = 0
    /\ ~recording =>
         DeriveMode(recording, isPlaying, audioBuffer /\ playbackBar, running)
           \in (IF pOp = "loadFile" THEN {AppState.PLAYBACK_READY}
                ELSE {AppState.IDLE, AppState.LIVE})

\* ---------------------------------------------- specification SpecWindow
\* one call of getFrequencyDataFromAudioBuffer, up to the extraction of the
\* window. Sample k of the channel holds the value k + 1, so that a shifted
\* window and a padded one differ; time is counted in half sample periods,
\* so that timePosition * sampleRate is timePosition / 2
MaxChannelLen == 6
WindowSizes == {2, 4}

\* Math.floor(timePosition * sampleRate)
samplePositionOf(time) == time \div 2

\* audioBuffer.duration, in half sample periods
DurationOf(data) == 2 * Length(data)

\* the window loop: startSample = Math.max(0, samplePosition - halfWindow),
\* windowedData[i] = channelData[startSample + i] inside the buffer, else 0
ExtractWindow(data, time, size) ==
  LET totalSamples == Length(data)
      samplePosition == samplePositionOf(time)
      halfWindow == size \div 2
      startSample == MaxOf(0, samplePosition - halfWindow)
  IN [i \in 0..(size - 1) |->
        LET sourceIndex == startSample + i
        IN IF sourceIndex < totalSamples /\ sourceIndex >= 0 THEN data[sourceIndex] ELSE 0]

InitWindow ==
  /\ PeakIdle
  /\ HoldIdle
  /\ AppIdle
  /\ PlayIdle
  /\ ModeIdle
  /\ DrawIdle
  /\ PureIdle
  /\ FrameIdle
  /\ ExportIdle
  /\ \E n \in 1..MaxChannelLen : channelData = [k \in 0..(n - 1) |-> k + 1]
  /\ timePosition \in -1..(2 * MaxChannelLen + 1)
  /\ timePosition <= DurationOf(channelData) + 1
  /\ windowSize \in WindowSizes
  /\ windowedData = <<>>

\* if (!audioBuffer || timePosition < 0 || timePosition > audioBuffer.duration)
\* the silent frame is returned and no window is extracted
CallGetFrequencyData ==
  /\ pOp = "init"
  /\ IF timePosition < 0 \/ timePosition > DurationOf(channelData)
     THEN /\ windowedData' = <<>>
          /\ pOp' = "windowSkipped"
     ELSE /\ windowedData' = ExtractWindow(channelData, timePosition, windowSize)
          /\ pOp' = "window"
  /\ UNCHANGED <<channelData, timePosition, windowSize, frameVars, exportVars>>
  /\ UNCHANGED <<graphComplete, clockVars, scrubVars, gestureOnly, recordedBlob>>
  /\ UNCHANGED <<peakVars, holdVars, appVars, modeVars, drawVars, pureVars>>

NextWindow == CallGetFrequencyData

SpecWindow == InitWindow /\ [][NextWindow]_vars

\* C35: the window of the scrub spectrum is centred on the sample position
\* p: element i is the channel sample at p - fftSize/2 + i where that index
\* lies in the buffer and 0 elsewhere, near the start and the end too
WindowCentredAndPadded ==
  pOp = "window" =>
    LET p == samplePositionOf(timePosition)
    IN \A i \in 0..(windowSize - 1) :
         LET k == p - (windowSize \div 2) + i
         IN windowedData[i] = IF k >= 0 /\ k < Length(channelData) THEN channelData[k] ELSE 0

\* ---------------------------------------------- specification SpecSource
\* the graph is fed by one source (live input or an earlier buffer), then
\* Play starts a newly loaded or newly recorded buffer
\* playAudioBuffer: a fresh analyser of fftSize / 2 bins, a frame buffer
\* filled with -Infinity, audioHandler.peakHoldArray.fill(-Infinity) (the
\* audio handler's own array, which the render loop never reads), then
\* spectrumGraph.setAudioContext, which re-allocates the graph's peak-hold
\* array only if its length differs from the new bufferLength
PlayNewSource ==
  \E n \in BinCounts :
    /\ bufferLength' = n
    /\ dataArray' = [i \in 0..(n - 1) |-> NegInf]
    /\ peakHoldArray' = ReallocPeakHold(peakHoldArray, n)
    /\ heldBefore' = Len(latestPeaks)
    /\ hOp' = "playNewSource"
    /\ UNCHANGED <<latestPeaks, scriptLatestPeaks, togglePeakHold, freqMin, freqMax,
                   dbMin, peakCount, peakDelta>>

NextSource ==
  \/ (SetAudioContext /\ UNCHANGED <<lateVars, pureVars, drawVars, peakVars, appVars, playVars, modeVars>>)
  \/ (RenderTick /\ UNCHANGED <<lateVars, pureVars, drawVars, peakVars, appVars, playVars, modeVars>>)
  \/ (PlayNewSource /\ UNCHANGED <<lateVars, pureVars, drawVars, peakVars, appVars, playVars, modeVars>>)

SpecSource == InitHold /\ [][NextSource]_vars

\* C36: when playback of a newly loaded or newly recorded buffer starts, the
\* peak-hold array the render loop updates and draws is all -Infinity before
\* the first playback frame is processed
NewSourceStartsWithEmptyHold ==
  hOp = "playNewSource" => \A i \in DOMAIN peakHoldArray : peakHoldArray[i] = NegInf


\* C37: playback is flagged as playing exactly while a started buffer source
\* has neither ended nor been stopped: the flag stays set while such a source
\* plays, and it is clear once none does (an 'ended' event of an earlier,
\* already paused source does not clear it; Start Live during playback does
\* not leave a source playing with the flag cleared)
PlayingFlagTracksSource ==
  isPlaying <=> (playbackSource = "playing" \/ orphans > 0)


\* ----------------------------------------------- specification SpecFrame
\* the sizes of the frame buffer the render loop reads (spectrumGraph.dataArray)
\* and of the frames that scrubbing and click-to-jump copy into it
FftSizes == {1024, 2048, 4096, 8192, 16384, 32768}

\* the default of the parameter fftSize of getFrequencyDataFromAudioBuffer:
\* none of its three callers passes a size
ScrubFftSize == 2048

\* analyser.frequencyBinCount
frequencyBinCount(fftSize) == fftSize \div 2

\* spectrumGraph.dataArray.set(frequencyData): a RangeError if the frame is
\* longer than the buffer, else the frame's bins overwrite the first bins
TypedArraySet(targetBins, sourceBins) ==
  IF sourceBins > targetBins
  THEN [bins |-> sourceBins, copied |-> 0, thrown |-> TRUE]
  ELSE [bins |-> sourceBins, copied |-> sourceBins, thrown |-> FALSE]

\* if (spectrumGraph.dataArray && frequencyData) dataArray.set(frequencyData)
CopyScrubFrame(targetBins) ==
  IF targetBins = 0 THEN NoCopy
  ELSE TypedArraySet(targetBins, frequencyBinCount(ScrubFftSize))

frameRest == <<recording, recorderState, analyser, isLiveMode, loopsLive, loopsPlay,
               playbackBar, isPlaying, isPaused, playbackSource, orphans, endedQueue,
               controlsDisabled, playBtnShown, lastRead, graphComplete, clockVars,
               scrubVars, gestureOnly, recordedBlob, modeVars>>

\* the user picks an FFT size; the change handler acts only while live runs:
\* live is restarted with the new size and the graph gets the new buffer
FrameSelectFftSize ==
  \E f \in FftSizes :
    /\ f # fftSizeValue
    /\ fftSizeValue' = f
    /\ graphBins' = IF running THEN frequencyBinCount(f) ELSE graphBins
    /\ frameCopy' = NoCopy
    /\ pOp' = "fftSizeChange"
    /\ UNCHANGED <<running, audioBuffer, frameRest>>

\* startBtn.onclick: startLiveVisualization(deviceId, fftSize), setAudioContext
FrameStartLive ==
  /\ ~running
  /\ running' = TRUE
  /\ graphBins' = frequencyBinCount(fftSizeValue)
  /\ frameCopy' = NoCopy
  /\ pOp' = "startLive"
  /\ UNCHANGED <<fftSizeValue, audioBuffer, frameRest>>

\* startBtn.onclick while live runs
FrameStopLive ==
  /\ running
  /\ running' = FALSE
  /\ frameCopy' = NoCopy
  /\ pOp' = "stopLive"
  /\ UNCHANGED <<fftSizeValue, graphBins, audioBuffer, frameRest>>

\* audioFileInput.onchange: live is stopped, the buffer decoded
FrameLoadFile ==
  /\ audioBuffer' = TRUE
  /\ running' = FALSE
  /\ frameCopy' = NoCopy
  /\ pOp' = "loadFile"
  /\ UNCHANGED <<fftSizeValue, graphBins, frameRest>>

\* playAudioBuffer: analyser.fftSize = parseInt(fftSizeSelect.value), a
\* frame buffer of analyser.frequencyBinCount bins, setAudioContext
FramePlay ==
  /\ audioBuffer
  /\ graphBins' = frequencyBinCount(fftSizeValue)
  /\ frameCopy' = NoCopy
  /\ pOp' = "play"
  /\ UNCHANGED <<fftSizeValue, running, audioBuffer, frameRest>>

\* startScrubbing and updateScrubPosition, on a graph that has setScrubMode
FrameScrub ==
  /\ audioBuffer
  /\ graphComplete
  /\ frameCopy' = CopyScrubFrame(graphBins)
  /\ pOp' = "scrubMove"
  /\ UNCHANGED <<fftSizeValue, graphBins, running, audioBuffer, frameRest>>

\* the click handler of the waveform: click-to-jump
FrameClickJump ==
  /\ audioBuffer
  /\ frameCopy' = CopyScrubFrame(graphBins)
  /\ pOp' = "clickJump"
  /\ UNCHANGED <<fftSizeValue, graphBins, running, audioBuffer, frameRest>>

NextFrame ==
  \/ (FrameSelectFftSize /\ UNCHANGED <<windowVars, exportVars, pureVars, drawVars, peakVars, holdVars>>)
  \/ (FrameStartLive /\ UNCHANGED <<windowVars, exportVars, pureVars, drawVars, peakVars, holdVars>>)
  \/ (FrameStopLive /\ UNCHANGED <<windowVars, exportVars, pureVars, drawVars, peakVars, holdVars>>)
  \/ (FrameLoadFile /\ UNCHANGED <<windowVars, exportVars, pureVars, drawVars, peakVars, holdVars>>)
  \/ (FramePlay /\ UNCHANGED <<windowVars, exportVars, pureVars, drawVars, peakVars, holdVars>>)
  \/ (FrameScrub /\ UNCHANGED <<windowVars, exportVars, pureVars, drawVars, peakVars, holdVars>>)
  \/ (FrameClickJump /\ UNCHANGED <<windowVars, exportVars, pureVars, drawVars, peakVars, holdVars>>)

SpecFrame == InitApp /\ [][NextFrame]_vars

\* C38: every frame copied into the render loop's frame buffer during
\* scrubbing or click-to-jump has exactly as many bins as the buffer (and as
\* the peak-hold array, which has the buffer's length) for every selectable
\* FFT size: the copy never fails and overwrites every bin
ScrubFrameFitsBuffer ==
  frameCopy # NoCopy =>
    /\ frameCopy.bins = graphBins
    /\ ~frameCopy.thrown
    /\ frameCopy.copied = graphBins


\* ---------------------------------------------- specification SpecExport
\* recordings, loaded files, Clear and Download; bufferFrom names the source
\* the data now on the page came from
\* the source of the page's data after a handler ran
SourceAfter(op, from) ==
  CASE op \in {"recordStop", "recordStopUndecoded"} -> "recording"
    [] op = "loadFile" -> "file"
    [] op = "clearFile" -> "none"
    [] OTHER -> from

\* downloadBtn.onclick: if (recordedBlob) the recording is exported, else if
\* (audioBuffer) the buffer, else nothing
DownloadOf(blob, buffer, from) ==
  IF blob THEN "recording" ELSE IF buffer THEN from ELSE "none"

ExportRecordStart ==
  /\ RecordStart
  /\ bufferFrom' = SourceAfter(pOp', bufferFrom)
  /\ downloaded' = "none"
  /\ UNCHANGED <<windowVars, frameVars, openContexts>>

ExportRecordStop ==
  /\ RecordStop
  /\ bufferFrom' = SourceAfter(pOp', bufferFrom)
  /\ downloaded' = "none"
  /\ UNCHANGED <<windowVars, frameVars, openContexts>>

ExportLoadFile ==
  /\ LoadFile
  /\ bufferFrom' = SourceAfter(pOp', bufferFrom)
  /\ downloaded' = "none"
  /\ UNCHANGED <<windowVars, frameVars, openContexts>>

ExportClearFile ==
  /\ ClearFile
  /\ bufferFrom' = SourceAfter(pOp', bufferFrom)
  /\ downloaded' = "none"
  /\ UNCHANGED <<windowVars, frameVars, openContexts>>

Download ==
  /\ downloaded' = DownloadOf(recordedBlob, audioBuffer, bufferFrom)
  /\ pOp' = "download"
  /\ UNCHANGED <<bufferFrom, windowVars, frameVars, openContexts>>
  /\ UNCHANGED <<appVars, graphComplete, clockVars, scrubVars, gestureOnly, recordedBlob>>

NextExport ==
  \/ (ExportRecordStart /\ UNCHANGED <<pureVars, drawVars, peakVars, holdVars, modeVars>>)
  \/ (ExportRecordStop /\ UNCHANGED <<pureVars, drawVars, peakVars, holdVars, modeVars>>)
  \/ (ExportLoadFile /\ UNCHANGED <<pureVars, drawVars, peakVars, holdVars, modeVars>>)
  \/ (ExportClearFile /\ UNCHANGED <<pureVars, drawVars, peakVars, holdVars, modeVars>>)
  \/ (Download /\ UNCHANGED <<pureVars, drawVars, peakVars, holdVars, modeVars>>)

SpecExport == InitApp /\ [][NextExport]_vars

\* C39: Download exports the audio of the current source: after a file was
\* loaded following an earlier recording it exports the file, and after the
\* data was cleared it does not export the earlier recording
DownloadExportsCurrentSource ==
  pOp = "download" => downloaded = bufferFrom


\* --------------------------------------------- specification SpecContext
\* the AudioContexts of the audio handler over start-live, stop-live and
\* FFT-size changes, and over the other handlers that start or stop live
MaxContexts == 3

\* startLiveVisualization: this.audioCtx = new AudioContext() once the
\* stream is there, with no close() of the context this.audioCtx held;
\* stopLiveVisualization disconnects the source and closes nothing
ContextsAfter(open, started) == IF started THEN open + 1 ELSE open

ContextStartLive ==
  /\ StartLive
  /\ openContexts' = ContextsAfter(openContexts, running')
  /\ openContexts' <= MaxContexts
  /\ UNCHANGED <<windowVars, frameVars, bufferFrom, downloaded>>

ContextStopLive ==
  /\ StopLive
  /\ openContexts' = ContextsAfter(openContexts, FALSE)
  /\ UNCHANGED <<windowVars, frameVars, bufferFrom, downloaded>>

ContextFftSizeChange ==
  /\ FftSizeChange
  /\ openContexts' = ContextsAfter(openContexts, running')
  /\ openContexts' <= MaxContexts
  /\ UNCHANGED <<windowVars, frameVars, bufferFrom, downloaded>>

\* recordBtn.onclick: startLiveVisualization where live was not running
ContextRecordStart ==
  /\ RecordStart
  /\ openContexts' = ContextsAfter(openContexts, ~running /\ running')
  /\ openContexts' <= MaxContexts
  /\ UNCHANGED <<windowVars, frameVars, bufferFrom, downloaded>>

\* recordBtn.onclick while recording: stopLiveVisualization
ContextRecordStop ==
  /\ RecordStop
  /\ openContexts' = ContextsAfter(openContexts, FALSE)
  /\ UNCHANGED <<windowVars, frameVars, bufferFrom, downloaded>>

\* audioFileInput.onchange: stopLiveVisualization
ContextLoadFile ==
  /\ LoadFile
  /\ openContexts' = ContextsAfter(openContexts, FALSE)
  /\ UNCHANGED <<windowVars, frameVars, bufferFrom, downloaded>>

NextContext ==
  \/ (ContextStartLive /\ UNCHANGED <<pureVars, drawVars, peakVars, holdVars, modeVars>>)
  \/ (ContextStopLive /\ UNCHANGED <<pureVars, drawVars, peakVars, holdVars, modeVars>>)
  \/ (ContextFftSizeChange /\ UNCHANGED <<pureVars, drawVars, peakVars, holdVars, modeVars>>)
  \/ (ContextRecordStart /\ UNCHANGED <<pureVars, drawVars, peakVars, holdVars, modeVars>>)
  \/ (ContextRecordStop /\ UNCHANGED <<pureVars, drawVars, peakVars, holdVars, modeVars>>)
  \/ (ContextLoadFile /\ UNCHANGED <<pureVars, drawVars, peakVars, holdVars, modeVars>>)

SpecContext == InitApp /\ [][NextContext]_vars

\* C40: after any sequence of start-live, stop-live and FFT-size-change
\* operations the audio handler owns at most one AudioContext that has not
\* been closed
AtMostOneOpenContext == openContexts <= 1

====
